---- MODULE Spec2Model ----
(***************************************************************************)
(* State-machine model of the collection-state management code of          *)
(* hpc_status: DashboardState (src/src/server/workers.py), the persistence *)
(* calls it makes (src/src/data/persistence.py) and ClusterMonitorWorker.  *)
(*                                                                         *)
(* Python dicts are mutable objects, so payloads live in a heap and        *)
(* _payload, the locals of refresh() and the values returned by snapshot() *)
(* are references into it.  The cache file and the history table hold      *)
(* serialized copies (values).                                             *)
(*                                                                         *)
(* The pure functions of the normalization library                         *)
(* (src/src/data/normalization.py) and QueueInfo's walltime parsing        *)
(* (src/src/data/models.py) are operators on strings, which are sequences  *)
(* of one-character strings.                                               *)
(***************************************************************************)
EXTENDS Integers, Sequences, FiniteSets, TLC

\* ---------------------------------------------------------------- bounds
MaxCollections == 2      \* collecting refresh() calls explored per behaviour
MaxThreshold == 3        \* largest failure_threshold a worker is built with
MaxCount == 100          \* successful monitor cycles explored per behaviour
MaxSeconds == 130        \* configured intervals run from -MaxSeconds to MaxSeconds
MaxPad == 1              \* blanks and modifier characters added to a raw state
MaxPercent == 100        \* largest percent_remaining an AllocationInfo is built with
MaxRows == 3             \* longest list of raw rows a payload is built from
MaxSystems == 2          \* longest list of systems jobs are spread over
MaxJobs == 7             \* largest number of jobs to spread

\* ------------------------------------------------------------ vocabulary
RefreshThreads == {"worker", "http"}
ReaderThreads == {"reader"}
Threads == RefreshThreads \cup ReaderThreads

SystemLists == {<<>>, <<"s1">>, <<"s1", "s2">>}

NoObj == 0               \* Python None as a payload reference
NoTs == 0                \* Python None as _last_refresh_ts
NoError == "None"        \* Python None as _last_error
Free == "free"           \* an unlocked threading.Lock

MsgBusy == <<"Refresh already in progress.">>
MsgStale == "Collection returned 0 systems; keeping stale data"
MsgOk == <<"Refreshed.">>
ExcCollect == "collector error"
ExcCache == "cache write error"
ExcSnapshot == "history write error"
NoResult == [ok |-> FALSE, msg |-> <<>>]

VARIABLES
    heap,             \* Seq of payload dicts; a reference is an index
    payload,          \* DashboardState._payload (reference or NoObj)
    last_error,       \* DashboardState._last_error
    last_refresh_ts,  \* DashboardState._last_refresh_ts
    is_loading,       \* DashboardState._is_loading
    payload_lock,     \* holder of _payload_lock, or Free
    refresh_lock,     \* holder of _refresh_lock, or Free
    cache,            \* the store's cache file for source_name
    history,          \* the store's snapshots table rows for source_name
    clock,            \* time.time()
    ncollect,         \* refresh() calls admitted so far (the model's bound)
    pc,               \* position of each thread
    blocking,         \* refresh(): the blocking argument
    collected,        \* refresh(): local `payload` (reference)
    exc,              \* refresh(): the exception being handled
    rejected,         \* refresh(): took the regression-guard branch
    result,           \* refresh(): the returned (success, message)
    pre,              \* state observed when the refresh lock was acquired
    held,             \* reference a reader got from snapshot()
    heldCopy,         \* content of that payload when snapshot() returned it
    rw_stop,          \* RefreshWorker._stop_event is set
    rw_after,         \* refresh() calls the worker began after stop()
    resp              \* what the last get_status() / GET /api/status gave

dashVars == <<heap, payload, last_error, last_refresh_ts, is_loading,
              payload_lock, refresh_lock, cache, history, clock, ncollect,
              pc, blocking, collected, exc, rejected, result, pre, held,
              heldCopy, rw_stop, rw_after, resp>>

\* ClusterMonitorWorker
VARIABLES
    m_pc,                  \* position of the worker thread
    stop_event,            \* _stop_event is set
    run_immediately,       \* _run_immediately
    consecutive_failures,  \* _consecutive_failures
    failure_threshold,     \* _failure_threshold
    collection_count,      \* _collection_count
    cluster_cache,         \* the store's "cluster_usage" cache entry
    clusters,              \* _collect_data(): local `clusters`
    tick,                  \* what happened since the current tick began
    waits,                 \* the waits that ended since the last collect()
    streak,                \* failed cycles since the last success or pause
    m_after                \* collect() calls begun after stop()

monVars == <<m_pc, stop_event, run_immediately, consecutive_failures,
             failure_threshold, collection_count, cluster_cache, clusters,
             tick, waits, streak, m_after>>

\* A call of one of the pure functions and constructors
VARIABLES
    fn,                    \* the function called, "none" before the call
    arg,                   \* its arguments
    out                    \* what it returned

fnVars == <<fn, arg, out>>

vars == <<dashVars, monVars, fnVars>>

\* --------------------------------------------------------------- payloads
\* A payload dict: its systems list, its summary, meta.generated_at (gen),
\* and the optional keys meta.stale, meta.from_cache and _cache_meta.
NewPayload(systems, gen) ==
    [systems |-> systems, summary |-> [total_systems |-> Len(systems)],
     gen |-> gen, stale |-> FALSE, from_cache |-> FALSE, cache_meta |-> FALSE]

NoContent == [none |-> TRUE]

Content(ref) == IF ref = NoObj THEN NoContent ELSE heap[ref]

\* payload.get("systems", [])
Systems(ref) == IF ref = NoObj THEN <<>> ELSE heap[ref].systems

\* ------------------------------------------------------------ persistence
\* A cache file: whether it exists, whether its text parses as JSON, the
\* age of its mtime in hours, and the dict it holds
NoCache ==
    [present |-> FALSE, readable |-> FALSE, age |-> 0, content |-> NoContent]

\* DataStore.save_cache: the file holds the serialized dict, mtime is now
SaveCache(content) ==
    [present |-> TRUE, readable |-> TRUE, age |-> 0, content |-> content]

\* max_age=timedelta(hours=24) in _load_initial_data
MaxAgeHours == 24

\* Faulty variant: an entry of exactly max_age is already expired
CacheFresh_Strict(age) == age < MaxAgeHours

\* persistence.py:78: the entry is expired if now - mtime > max_age
CacheFresh(age) == ~(age > MaxAgeHours)

\* DataStore.load_cache(name, max_age=24h): None when the file is missing,
\* older than max_age or not JSON; else the parsed dict with _cache_meta
LoadCache(entry) ==
    IF ~entry.present THEN NoContent
    ELSE IF ~CacheFresh(entry.age) THEN NoContent
    ELSE IF ~entry.readable THEN NoContent
    ELSE [entry.content EXCEPT !.cache_meta = TRUE]

\* DataStore.save_snapshot: one more row in the snapshots table
SaveSnapshot(rows, content) == Append(rows, content)

\* ------------------------------------------------- DashboardState.__init__
\* _load_initial_data: the cached dict becomes _payload, flagged from_cache
LoadInitialPayload(entry) ==
    IF LoadCache(entry) = NoContent THEN NoContent
    ELSE [LoadCache(entry) EXCEPT !.from_cache = TRUE]

LoadInitialLoading(entry) == LoadCache(entry) = NoContent

\* No call answered yet
NoResponse == [kind |-> "none"]

\* DashboardState.is_ready
IsReady == payload # NoObj

\* Ages of the cache file found at start-up, in hours: new, exactly max_age,
\* and older
CacheAges == {0, MaxAgeHours, MaxAgeHours + 1}

\* What the cache directory can hold when the server starts: nothing, a file
\* an earlier run wrote, or a file that is not JSON
CacheEntries ==
    {NoCache} \cup
    {[present |-> TRUE, readable |-> TRUE, age |-> a,
      content |-> NewPayload(s, 0)] : a \in CacheAges, s \in SystemLists} \cup
    {[present |-> TRUE, readable |-> FALSE, age |-> 0, content |-> NoContent]}

InitDash ==
    \E entry \in CacheEntries :
        /\ cache = entry
        /\ heap = IF LoadInitialPayload(entry) = NoContent THEN <<>>
                  ELSE <<LoadInitialPayload(entry)>>
        /\ payload = IF LoadInitialPayload(entry) = NoContent THEN NoObj ELSE 1
        /\ is_loading = LoadInitialLoading(entry)
        /\ last_error = NoError
        /\ last_refresh_ts = NoTs
        /\ payload_lock = Free
        /\ refresh_lock = Free
        /\ history = <<>>
        /\ clock = 1
        /\ ncollect = 0
        /\ pc = [t \in Threads |-> "idle"]
        /\ blocking = [t \in RefreshThreads |-> TRUE]
        /\ collected = [t \in RefreshThreads |-> NoObj]
        /\ exc = [t \in RefreshThreads |-> NoError]
        /\ rejected = [t \in RefreshThreads |-> FALSE]
        /\ result = [t \in RefreshThreads |-> NoResult]
        /\ pre = [t \in RefreshThreads |-> NoContent]
        /\ held = [t \in ReaderThreads |-> NoObj]
        /\ heldCopy = [t \in ReaderThreads |-> NoContent]
        /\ rw_stop = FALSE
        /\ rw_after = 0
        /\ resp = NoResponse

\* ------------------------------------------------ DashboardState.refresh
\* What refresh() can observe of the manager once it owns the refresh lock
Observed ==
    [payload |-> payload, content |-> Content(payload),
     last_error |-> last_error, last_refresh_ts |-> last_refresh_ts,
     is_loading |-> is_loading, cache |-> cache, history |-> history]

\* Faulty variant: wait() sleeps out its timeout whatever the event says
EventWait_SleepsOut(isSet) == FALSE

\* threading.Event.wait(timeout) as the two run loops use it: returns True
\* at once when the event is or becomes set, False when the timeout runs out
EventWait(isSet) == isSet

\* Where a thread calls refresh() from: the RefreshWorker thread after its
\* wait(interval) timed out (workers.py:141-142), a request handler at will
CallPoint(t) == IF t = "worker" THEN "woken" ELSE "idle"

\* The bound on refresh() calls: a handler's call counts when it is made,
\* the worker's when its wait times out, so that a woken worker always calls
CallAllowed(t) == t # "worker" => ncollect < MaxCollections

\* Faulty variant: acquire() succeeds whoever holds the lock
RefreshLockAcquirable_Always(holder) == TRUE

\* threading.Lock.acquire succeeds only on an unlocked lock
RefreshLockAcquirable(holder) == holder = Free

PayloadLockAcquirable(holder) == holder = Free

ResetLocals(t, b) ==
    /\ blocking' = [blocking EXCEPT ![t] = b]
    /\ collected' = [collected EXCEPT ![t] = NoObj]
    /\ exc' = [exc EXCEPT ![t] = NoError]
    /\ rejected' = [rejected EXCEPT ![t] = FALSE]

\* line 65, lock free: acquire and go on to call generate_fn()
RefreshAcquire(t, b) ==
    /\ pc[t] = CallPoint(t)
    /\ t = "worker" => b
    /\ CallAllowed(t)
    /\ RefreshLockAcquirable(refresh_lock)
    /\ refresh_lock' = t
    /\ pc' = [pc EXCEPT ![t] = "collecting"]
    /\ pre' = [pre EXCEPT ![t] = Observed]
    /\ result' = [result EXCEPT ![t] = NoResult]
    /\ ncollect' = IF t = "worker" THEN ncollect ELSE ncollect + 1
    /\ ResetLocals(t, b)
    /\ UNCHANGED monVars
    /\ UNCHANGED fnVars
    /\ rw_after' = IF t = "worker" /\ rw_stop THEN rw_after + 1 ELSE rw_after
    /\ UNCHANGED <<rw_stop, resp>>
    /\ UNCHANGED <<heap, payload, last_error, last_refresh_ts, is_loading,
                   payload_lock, cache, history, clock, held, heldCopy>>

\* line 65, lock held, blocking=True: the caller blocks in acquire()
RefreshBlock(t) ==
    /\ pc[t] = CallPoint(t)
    /\ CallAllowed(t)
    /\ ~RefreshLockAcquirable(refresh_lock)
    /\ pc' = [pc EXCEPT ![t] = "wait"]
    /\ result' = [result EXCEPT ![t] = NoResult]
    /\ ncollect' = IF t = "worker" THEN ncollect ELSE ncollect + 1
    /\ ResetLocals(t, TRUE)
    /\ UNCHANGED monVars
    /\ UNCHANGED fnVars
    /\ rw_after' = IF t = "worker" /\ rw_stop THEN rw_after + 1 ELSE rw_after
    /\ UNCHANGED <<rw_stop, resp>>
    /\ UNCHANGED <<heap, payload, last_error, last_refresh_ts, is_loading,
                   payload_lock, refresh_lock, cache, history, clock, pre,
                   held, heldCopy>>

\* lines 65-66, lock held, blocking=False: return at once
RefreshBusy(t) ==
    /\ pc[t] = CallPoint(t)
    /\ t # "worker"
    /\ ~RefreshLockAcquirable(refresh_lock)
    /\ result' = [result EXCEPT ![t] = [ok |-> FALSE, msg |-> MsgBusy]]
    /\ ResetLocals(t, FALSE)
    /\ UNCHANGED monVars
    /\ UNCHANGED fnVars
    /\ UNCHANGED <<rw_stop, rw_after, resp>>
    /\ UNCHANGED <<heap, payload, last_error, last_refresh_ts, is_loading,
                   payload_lock, refresh_lock, cache, history, clock,
                   ncollect, pc, pre, held, heldCopy>>

\* line 65: a blocked acquire() returns once the lock is released
RefreshUnblock(t) ==
    /\ pc[t] = "wait"
    /\ RefreshLockAcquirable(refresh_lock)
    /\ refresh_lock' = t
    /\ pc' = [pc EXCEPT ![t] = "collecting"]
    /\ pre' = [pre EXCEPT ![t] = Observed]
    /\ UNCHANGED monVars
    /\ UNCHANGED fnVars
    /\ UNCHANGED <<rw_stop, rw_after, resp>>
    /\ UNCHANGED <<heap, payload, last_error, last_refresh_ts, is_loading,
                   payload_lock, cache, history, clock, ncollect, blocking,
                   collected, exc, rejected, result, held, heldCopy>>

\* line 68: generate_fn() returns a freshly built payload dict
CollectReturn(t) ==
    /\ pc[t] = "collecting"
    /\ \E s \in SystemLists :
          heap' = Append(heap, NewPayload(s, Len(heap) + 1))
    /\ collected' = [collected EXCEPT ![t] = Len(heap) + 1]
    /\ pc' = [pc EXCEPT ![t] = "guard"]
    /\ UNCHANGED monVars
    /\ UNCHANGED fnVars
    /\ UNCHANGED <<rw_stop, rw_after, resp>>
    /\ UNCHANGED <<payload, last_error, last_refresh_ts, is_loading,
                   payload_lock, refresh_lock, cache, history, clock,
                   ncollect, blocking, exc, rejected, result, pre, held,
                   heldCopy>>

\* An exception propagates to the handler at line 94
Raise(t, e) ==
    /\ exc' = [exc EXCEPT ![t] = e]
    /\ pc' = [pc EXCEPT ![t] = "exc"]
    /\ UNCHANGED monVars
    /\ UNCHANGED fnVars
    /\ UNCHANGED <<rw_stop, rw_after, resp>>
    /\ UNCHANGED <<heap, payload, last_error, last_refresh_ts, is_loading,
                   payload_lock, refresh_lock, cache, history, clock,
                   ncollect, blocking, collected, rejected, result, pre,
                   held, heldCopy>>

\* line 68: generate_fn() raises
CollectRaise(t) == pc[t] = "collecting" /\ Raise(t, ExcCollect)

\* Faulty variant: no regression guard
GuardRejects_Never(newSystems, live) == FALSE

\* line 72: not systems and self._payload and self._payload.get("systems")
GuardRejects(newSystems, live) ==
    newSystems = <<>> /\ live # NoObj /\ Systems(live) # <<>>

\* lines 71-72: the regression guard's test
Guard(t) ==
    /\ pc[t] = "guard"
    /\ rejected' = [rejected EXCEPT ![t] =
                       GuardRejects(Systems(collected[t]), payload)]
    /\ pc' = [pc EXCEPT ![t] = IF rejected'[t] THEN "g_lock" ELSE "s_cache"]
    /\ UNCHANGED monVars
    /\ UNCHANGED fnVars
    /\ UNCHANGED <<rw_stop, rw_after, resp>>
    /\ UNCHANGED <<heap, payload, last_error, last_refresh_ts, is_loading,
                   payload_lock, refresh_lock, cache, history, clock,
                   ncollect, blocking, collected, exc, result, pre, held,
                   heldCopy>>

\* `with self._payload_lock:` entered from program point `at`
LockPayload(t, at, body) ==
    /\ pc[t] = at
    /\ PayloadLockAcquirable(payload_lock)
    /\ payload_lock' = t
    /\ pc' = [pc EXCEPT ![t] = body]
    /\ UNCHANGED monVars
    /\ UNCHANGED fnVars
    /\ UNCHANGED <<rw_stop, rw_after, resp>>
    /\ UNCHANGED <<heap, payload, last_error, last_refresh_ts, is_loading,
                   refresh_lock, cache, history, clock, ncollect, blocking,
                   collected, exc, rejected, result, pre, held, heldCopy>>

\* Faulty variant: the stale flag is not set
MarkStale_Noop(content) == content

\* line 79: self._payload.setdefault("meta", {})["stale"] = True
MarkStale(content) == [content EXCEPT !.stale = TRUE]

\* line 76: the message recorded by the regression guard
GuardError == MsgStale

GuardLock(t) == LockPayload(t, "g_lock", "g_body")

\* Faulty variant: the with block extends over the save_snapshot call, so
\* the payload lock is still held when the body's assignments are done
GuardBody_HoldsLock(t) ==
    /\ pc[t] = "g_body"
    /\ payload_lock = t
    /\ last_error' = MsgStale
    /\ last_refresh_ts' = clock
    /\ clock' = clock + 1
    /\ heap' = [heap EXCEPT ![payload] = [@ EXCEPT !.stale = TRUE]]
    /\ pc' = [pc EXCEPT ![t] = "g_snap"]
    /\ UNCHANGED monVars
    /\ UNCHANGED fnVars
    /\ UNCHANGED <<rw_stop, rw_after, resp>>
    /\ UNCHANGED <<payload, is_loading, payload_lock, refresh_lock, cache,
                   history, ncollect, blocking, collected, exc, rejected,
                   result, pre, held, heldCopy>>

\* lines 75-79: the guard's critical section; the live dict is updated in
\* place and the lock is released at the end of the with block
GuardBody(t) ==
    /\ pc[t] = "g_body"
    /\ payload_lock = t
    /\ last_error' = GuardError
    /\ last_refresh_ts' = clock
    /\ clock' = clock + 1
    /\ heap' = [heap EXCEPT ![payload] = MarkStale(@)]
    /\ payload_lock' = Free
    /\ pc' = [pc EXCEPT ![t] = "g_snap"]
    /\ UNCHANGED monVars
    /\ UNCHANGED fnVars
    /\ UNCHANGED <<rw_stop, rw_after, resp>>
    /\ UNCHANGED <<payload, is_loading, refresh_lock, cache, history,
                   ncollect, blocking, collected, exc, rejected, result, pre,
                   held, heldCopy>>

\* lines 81-82: the rejected result goes to history, then return False, msg
GuardSnapshot(t) ==
    /\ pc[t] = "g_snap"
    /\ history' = SaveSnapshot(history, heap[collected[t]])
    /\ result' = [result EXCEPT ![t] = [ok |-> FALSE, msg |-> <<MsgStale>>]]
    /\ pc' = [pc EXCEPT ![t] = "fin"]
    /\ UNCHANGED monVars
    /\ UNCHANGED fnVars
    /\ UNCHANGED <<rw_stop, rw_after, resp>>
    /\ UNCHANGED <<heap, payload, last_error, last_refresh_ts, is_loading,
                   payload_lock, refresh_lock, cache, clock, ncollect,
                   blocking, collected, exc, rejected, pre, held, heldCopy>>

\* line 81: save_snapshot raises (sqlite error, unserializable value)
GuardSnapshotRaise(t) == pc[t] = "g_snap" /\ Raise(t, ExcSnapshot)

\* line 85: self.store.save_cache(self.source_name, payload)
WriteCache(t) ==
    /\ pc[t] = "s_cache"
    /\ cache' = SaveCache(heap[collected[t]])
    /\ pc' = [pc EXCEPT ![t] = "s_snap"]
    /\ UNCHANGED monVars
    /\ UNCHANGED fnVars
    /\ UNCHANGED <<rw_stop, rw_after, resp>>
    /\ UNCHANGED <<heap, payload, last_error, last_refresh_ts, is_loading,
                   payload_lock, refresh_lock, history, clock, ncollect,
                   blocking, collected, exc, rejected, result, pre, held,
                   heldCopy>>

\* line 85: save_cache raises before the file is replaced
WriteCacheRaise(t) == pc[t] = "s_cache" /\ Raise(t, ExcCache)

\* line 87: self.store.save_snapshot(self.source_name, payload)
WriteSnapshot(t) ==
    /\ pc[t] = "s_snap"
    /\ history' = SaveSnapshot(history, heap[collected[t]])
    /\ pc' = [pc EXCEPT ![t] = "i_lock"]
    /\ UNCHANGED monVars
    /\ UNCHANGED fnVars
    /\ UNCHANGED <<rw_stop, rw_after, resp>>
    /\ UNCHANGED <<heap, payload, last_error, last_refresh_ts, is_loading,
                   payload_lock, refresh_lock, cache, clock, ncollect,
                   blocking, collected, exc, rejected, result, pre, held,
                   heldCopy>>

\* line 87: save_snapshot raises
WriteSnapshotRaise(t) == pc[t] = "s_snap" /\ Raise(t, ExcSnapshot)

InstallLock(t) == LockPayload(t, "i_lock", "i_body")

\* Faulty variant: the old payload stays installed
InstalledPayload_Old(new, old) == old

\* line 89: self._payload = payload
InstalledPayload(new, old) == new

\* line 90: self._last_error = None
InstalledError == NoError

\* line 89: the new payload replaces the live one; from here on a read of
\* _payload that takes no lock sees it, with _is_loading not yet cleared
InstallPayload(t) ==
    /\ pc[t] = "i_body"
    /\ payload_lock = t
    /\ payload' = InstalledPayload(collected[t], payload)
    /\ pc' = [pc EXCEPT ![t] = "i_rest"]
    /\ UNCHANGED monVars
    /\ UNCHANGED fnVars
    /\ UNCHANGED <<rw_stop, rw_after, resp>>
    /\ UNCHANGED <<heap, last_error, last_refresh_ts, is_loading,
                   payload_lock, refresh_lock, cache, history, clock,
                   ncollect, blocking, collected, exc, rejected, result, pre,
                   held, heldCopy>>

\* lines 90-93: the error is cleared, the time stamp set, _is_loading
\* cleared; return True
InstallBody(t) ==
    /\ pc[t] = "i_rest"
    /\ payload_lock = t
    /\ last_error' = InstalledError
    /\ last_refresh_ts' = clock
    /\ clock' = clock + 1
    /\ is_loading' = FALSE
    /\ payload_lock' = Free
    /\ result' = [result EXCEPT ![t] = [ok |-> TRUE, msg |-> MsgOk]]
    /\ pc' = [pc EXCEPT ![t] = "fin"]
    /\ UNCHANGED monVars
    /\ UNCHANGED fnVars
    /\ UNCHANGED <<rw_stop, rw_after, resp>>
    /\ UNCHANGED <<heap, payload, refresh_lock, cache, history, ncollect,
                   blocking, collected, exc, rejected, pre, held, heldCopy>>

ExceptLock(t) == LockPayload(t, "exc", "e_body")

\* Faulty variant: the handler drops the exception text
ExceptError_Lost(e) == NoError

\* line 96: self._last_error = str(exc)
ExceptError(e) == e

\* lines 94-97: the handler records the error; return False, message
ExceptBody(t) ==
    /\ pc[t] = "e_body"
    /\ payload_lock = t
    /\ last_error' = ExceptError(exc[t])
    /\ payload_lock' = Free
    /\ result' = [result EXCEPT ![t] =
                     [ok |-> FALSE, msg |-> <<"Refresh failed: ", exc[t]>>]]
    /\ pc' = [pc EXCEPT ![t] = "fin"]
    /\ UNCHANGED monVars
    /\ UNCHANGED fnVars
    /\ UNCHANGED <<rw_stop, rw_after, resp>>
    /\ UNCHANGED <<heap, payload, last_refresh_ts, is_loading, refresh_lock,
                   cache, history, clock, ncollect, blocking, collected, exc,
                   rejected, pre, held, heldCopy>>

\* lines 98-99: finally: self._refresh_lock.release(); the call returns
Finally(t) ==
    /\ pc[t] = "fin"
    /\ refresh_lock = t
    /\ refresh_lock' = Free
    /\ pc' = [pc EXCEPT ![t] = "idle"]
    /\ collected' = [collected EXCEPT ![t] = NoObj]
    /\ exc' = [exc EXCEPT ![t] = NoError]
    /\ rejected' = [rejected EXCEPT ![t] = FALSE]
    /\ pre' = [pre EXCEPT ![t] = NoContent]
    /\ UNCHANGED monVars
    /\ UNCHANGED fnVars
    /\ UNCHANGED <<rw_stop, rw_after, resp>>
    /\ UNCHANGED <<heap, payload, last_error, last_refresh_ts, is_loading,
                   payload_lock, cache, history, clock, ncollect, blocking,
                   result, held, heldCopy>>

\* ----------------------------------------------- DashboardState.snapshot
SnapshotLock(r) == LockPayload(r, "idle", "snap")

\* line 108: return self._payload, ...: the caller gets the reference
SnapshotBody(r) ==
    /\ pc[r] = "snap"
    /\ payload_lock = r
    /\ held' = [held EXCEPT ![r] = payload]
    /\ heldCopy' = [heldCopy EXCEPT ![r] = Content(payload)]
    /\ payload_lock' = Free
    /\ pc' = [pc EXCEPT ![r] = "idle"]
    /\ UNCHANGED monVars
    /\ UNCHANGED fnVars
    /\ UNCHANGED <<rw_stop, rw_after, resp>>
    /\ UNCHANGED <<heap, payload, last_error, last_refresh_ts, is_loading,
                   refresh_lock, cache, history, clock, ncollect, blocking,
                   collected, exc, rejected, result, pre>>

\* --------------------------------------------------------- RefreshWorker
\* RefreshWorker.stop, called from another thread at any time
StopRefreshWorker ==
    /\ ~rw_stop
    /\ rw_stop' = TRUE
    /\ UNCHANGED monVars
    /\ UNCHANGED fnVars
    /\ UNCHANGED <<heap, payload, last_error, last_refresh_ts, is_loading,
                   payload_lock, refresh_lock, cache, history, clock,
                   ncollect, pc, blocking, collected, exc, rejected, result,
                   pre, held, heldCopy, rw_after, resp>>

\* line 141: self._stop_event.wait(self.interval) returns: True (the loop
\* ends) as soon as the event is set, False when the interval runs out
WorkerWaitReturns ==
    /\ pc["worker"] = "idle"
    /\ ~EventWait(rw_stop) => ncollect < MaxCollections
    /\ pc' = [pc EXCEPT !["worker"] =
                 IF EventWait(rw_stop) THEN "exited" ELSE "woken"]
    /\ ncollect' = IF EventWait(rw_stop) THEN ncollect ELSE ncollect + 1
    /\ UNCHANGED monVars
    /\ UNCHANGED fnVars
    /\ UNCHANGED <<heap, payload, last_error, last_refresh_ts, is_loading,
                   payload_lock, refresh_lock, cache, history, clock,
                   blocking, collected, exc, rejected, result,
                   pre, held, heldCopy, rw_stop, rw_after, resp>>

RefreshStep(t) ==
    \/ \E b \in BOOLEAN : RefreshAcquire(t, b)
    \/ RefreshBlock(t)
    \/ RefreshBusy(t)
    \/ RefreshUnblock(t)
    \/ CollectReturn(t)
    \/ CollectRaise(t)
    \/ Guard(t)
    \/ GuardLock(t)
    \/ GuardBody(t)
    \/ GuardSnapshot(t)
    \/ GuardSnapshotRaise(t)
    \/ WriteCache(t)
    \/ WriteCacheRaise(t)
    \/ WriteSnapshot(t)
    \/ WriteSnapshotRaise(t)
    \/ InstallLock(t)
    \/ InstallPayload(t)
    \/ InstallBody(t)
    \/ ExceptLock(t)
    \/ ExceptBody(t)
    \/ Finally(t)

SnapshotStep(r) == SnapshotLock(r) \/ SnapshotBody(r)

\* ------------------------------------- get_status and GET /api/status
\* The placeholder dict of get_status (workers.py:113-121)
LoadingPlaceholder == [kind |-> "loading"]

\* `x or {}` gave the empty dict
EmptyDict == [kind |-> "empty"]

\* A response that is the payload dict ref, as it reads when it is sent
PayloadResponse(ref) == [kind |-> "payload", ref |-> ref, content |-> Content(ref)]

\* `not self._payload`: None (a payload dict always has keys)
Falsy(ref) == ref = NoObj

\* Faulty variant: the handler sends whatever snapshot() gave
StatusResponse_Unchecked(ref, err, ts) == PayloadResponse(ref)

\* routes.py:130-138: 503 with the last error or "Data not ready yet." when
\* snapshot() gave no payload, else the payload
StatusResponse(ref, err, ts) ==
    IF ref = NoObj
    THEN [kind |-> "unavailable", code |-> 503,
          error |-> IF err = NoError THEN "Data not ready yet." ELSE err,
          last_refresh_epoch |-> ts]
    ELSE PayloadResponse(ref)

\* routes.py:130: state.snapshot() takes the payload lock
StatusLock(r) == LockPayload(r, "idle", "st_snap")

\* routes.py:130-138: the snapshot is taken, the lock released and the
\* response built from the three values
StatusBody(r) ==
    /\ pc[r] = "st_snap"
    /\ payload_lock = r
    /\ resp' = StatusResponse(payload, last_error, last_refresh_ts)
    /\ payload_lock' = Free
    /\ pc' = [pc EXCEPT ![r] = "idle"]
    /\ UNCHANGED monVars
    /\ UNCHANGED fnVars
    /\ UNCHANGED <<rw_stop, rw_after>>
    /\ UNCHANGED <<heap, payload, last_error, last_refresh_ts, is_loading,
                   refresh_lock, cache, history, clock, ncollect, blocking,
                   collected, exc, rejected, result, pre, held, heldCopy>>

\* workers.py:112: get_status reads self._is_loading, without the lock
GetStatusLoading(r) ==
    /\ pc[r] = "idle"
    /\ pc' = [pc EXCEPT ![r] = IF is_loading THEN "gs_test" ELSE "gs_ret"]
    /\ UNCHANGED monVars
    /\ UNCHANGED fnVars
    /\ UNCHANGED <<rw_stop, rw_after, resp>>
    /\ UNCHANGED <<heap, payload, last_error, last_refresh_ts, is_loading,
                   payload_lock, refresh_lock, cache, history, clock,
                   ncollect, blocking, collected, exc, rejected, result, pre,
                   held, heldCopy>>

\* workers.py:112-121: ... and not self._payload: the placeholder is returned
GetStatusTest(r) ==
    /\ pc[r] = "gs_test"
    /\ pc' = [pc EXCEPT ![r] = IF Falsy(payload) THEN "idle" ELSE "gs_ret"]
    /\ resp' = IF Falsy(payload) THEN LoadingPlaceholder ELSE resp
    /\ UNCHANGED monVars
    /\ UNCHANGED fnVars
    /\ UNCHANGED <<rw_stop, rw_after>>
    /\ UNCHANGED <<heap, payload, last_error, last_refresh_ts, is_loading,
                   payload_lock, refresh_lock, cache, history, clock,
                   ncollect, blocking, collected, exc, rejected, result, pre,
                   held, heldCopy>>

\* workers.py:122: return self._payload or {}, a second read of _payload
GetStatusReturn(r) ==
    /\ pc[r] = "gs_ret"
    /\ pc' = [pc EXCEPT ![r] = "idle"]
    /\ resp' = IF Falsy(payload) THEN EmptyDict ELSE PayloadResponse(payload)
    /\ UNCHANGED monVars
    /\ UNCHANGED fnVars
    /\ UNCHANGED <<rw_stop, rw_after>>
    /\ UNCHANGED <<heap, payload, last_error, last_refresh_ts, is_loading,
                   payload_lock, refresh_lock, cache, history, clock,
                   ncollect, blocking, collected, exc, rejected, result, pre,
                   held, heldCopy>>

ApiStep(r) ==
    \/ StatusLock(r)
    \/ StatusBody(r)
    \/ GetStatusLoading(r)
    \/ GetStatusTest(r)
    \/ GetStatusReturn(r)

\* ---------------------------------------------------- ClusterMonitorWorker
ClusterLists == {<<>>, <<"c1">>, <<"c1", "c2">>}
NoClusters == <<"None">>     \* no "cluster_usage" cache file; no local value

CleanupEvery == 100

\* Bookkeeping of one tick (one pass of the while loop of run()): the counter
\* when it began, how the breaker pause ended, the collect() calls made and
\* what the last one yielded, the counter, streak, waits and cache entry
\* when collect() was called, whether _collect_data has returned, and
\* whether cleanup_old_data ran
NoTick == [open |-> FALSE, start |-> 0, start_streak |-> 0,
           pause |-> "none", calls |-> 0,
           outcome |-> "none", before |-> 0, streak_before |-> 0,
           waited |-> <<>>, cache_before |-> NoClusters,
           done |-> FALSE, cleaned |-> FALSE]

\* ClusterMonitorWorker.__init__
InitMonitor ==
    /\ m_pc = "init"
    /\ stop_event = FALSE
    /\ run_immediately \in BOOLEAN
    /\ consecutive_failures = 0
    /\ failure_threshold \in 1..MaxThreshold
    /\ collection_count = 0
    /\ cluster_cache \in {NoClusters, <<"c0">>}
    /\ clusters = NoClusters
    /\ tick = NoTick
    /\ waits = <<>>
    /\ streak = 0
    /\ m_after = 0

\* ClusterMonitorWorker.stop, called from another thread at any time
Stop ==
    /\ ~stop_event
    /\ stop_event' = TRUE
    /\ UNCHANGED dashVars
    /\ UNCHANGED fnVars
    /\ UNCHANGED m_after
    /\ UNCHANGED <<m_pc, run_immediately, consecutive_failures,
                   failure_threshold, collection_count, cluster_cache,
                   clusters, tick, waits, streak>>

\* run(), lines 191-196: wait one interval first unless run_immediately
RunStart ==
    /\ m_pc = "init"
    /\ m_pc' = IF run_immediately THEN "loop" ELSE "first_wait"
    /\ UNCHANGED dashVars
    /\ UNCHANGED fnVars
    /\ UNCHANGED m_after
    /\ UNCHANGED <<stop_event, run_immediately, consecutive_failures,
                   failure_threshold, collection_count, cluster_cache,
                   clusters, tick, waits, streak>>

\* Event.wait(timeout) at program point `at`: True as soon as the event is
\* set, False when the timeout runs out first
WaitReturns(at, ifSet, ifTimeout, name) ==
    /\ m_pc = at
    /\ m_pc' = IF EventWait(stop_event) THEN ifSet ELSE ifTimeout
    /\ waits' = IF EventWait(stop_event) THEN waits ELSE Append(waits, name)

\* line 193: self._stop_event.wait(self.interval) before the first cycle
FirstWait ==
    /\ WaitReturns("first_wait", "stopped", "loop", "interval")
    /\ UNCHANGED dashVars
    /\ UNCHANGED fnVars
    /\ UNCHANGED m_after
    /\ UNCHANGED <<stop_event, run_immediately, consecutive_failures,
                   failure_threshold, collection_count, cluster_cache,
                   clusters, tick, streak>>

\* line 197: while not self._stop_event.is_set(): a tick begins
LoopTest ==
    /\ m_pc = "loop"
    /\ m_pc' = IF stop_event THEN "stopped" ELSE "breaker"
    /\ tick' = IF stop_event THEN NoTick
               ELSE [NoTick EXCEPT !.start = consecutive_failures,
                                   !.start_streak = streak,
                                   !.open = consecutive_failures >= failure_threshold]
    /\ UNCHANGED dashVars
    /\ UNCHANGED fnVars
    /\ UNCHANGED m_after
    /\ UNCHANGED <<stop_event, run_immediately, consecutive_failures,
                   failure_threshold, collection_count, cluster_cache,
                   clusters, waits, streak>>

\* Faulty variant: the breaker opens one failure late
BreakerOpen_Late(failures, threshold) == failures > threshold

\* line 214: self._consecutive_failures >= self._failure_threshold
BreakerOpen(failures, threshold) == failures >= threshold

\* lines 213-214: the circuit breaker's test at the start of _collect_data
BreakerTest ==
    /\ m_pc = "breaker"
    /\ m_pc' = IF BreakerOpen(consecutive_failures, failure_threshold)
               THEN "pause" ELSE "collect"
    /\ UNCHANGED dashVars
    /\ UNCHANGED fnVars
    /\ UNCHANGED m_after
    /\ UNCHANGED <<stop_event, run_immediately, consecutive_failures,
                   failure_threshold, collection_count, cluster_cache,
                   clusters, tick, waits, streak>>

\* Faulty variant: the pause does not reset the counter
FailuresAfterPause_Keep(failures) == failures

\* line 222: self._consecutive_failures = 0
FailuresAfterPause(failures) == 0

\* lines 220-222: the pause; stopped: return; timed out: reset the counter
\* and go on to the try block
Pause ==
    /\ WaitReturns("pause", "sleep", "collect", "pause")
    /\ consecutive_failures' =
          IF EventWait(stop_event) THEN consecutive_failures
          ELSE FailuresAfterPause(consecutive_failures)
    /\ streak' = IF EventWait(stop_event) THEN streak ELSE 0
    /\ tick' = [tick EXCEPT !.pause = IF EventWait(stop_event)
                                      THEN "stopped" ELSE "elapsed",
                            !.done = stop_event]
    /\ UNCHANGED dashVars
    /\ UNCHANGED fnVars
    /\ UNCHANGED m_after
    /\ UNCHANGED <<stop_event, run_immediately, failure_threshold,
                   collection_count, cluster_cache, clusters>>

\* lines 224-226: the try block is entered and collect() is called
CollectCall ==
    /\ m_pc = "collect"
    /\ m_pc' = "collecting"
    /\ tick' = [tick EXCEPT !.calls = @ + 1,
                            !.before = consecutive_failures,
                            !.streak_before = streak,
                            !.waited = waits,
                            !.cache_before = cluster_cache]
    /\ waits' = <<>>
    /\ UNCHANGED dashVars
    /\ UNCHANGED fnVars
    /\ m_after' = IF stop_event THEN m_after + 1 ELSE m_after
    /\ UNCHANGED <<stop_event, run_immediately, consecutive_failures,
                   failure_threshold, collection_count, cluster_cache,
                   clusters, streak>>

\* lines 230 and 256: self._consecutive_failures += 1
FailuresAfterFailure(failures) == failures + 1

\* line 241: self._consecutive_failures = 0
FailuresAfterSuccess(failures) == 0

\* lines 226-241: collect() returns data; empty: count a failure, else
\* reset the counter
CollectorReturns(cl) ==
    /\ m_pc = "collecting"
    /\ cl # <<>> => collection_count < MaxCount
    /\ clusters' = cl
    /\ consecutive_failures' =
          IF cl = <<>> THEN FailuresAfterFailure(consecutive_failures)
          ELSE FailuresAfterSuccess(consecutive_failures)
    /\ streak' = IF cl = <<>> THEN streak + 1 ELSE 0
    /\ tick' = [tick EXCEPT !.outcome = IF cl = <<>> THEN "empty" ELSE "clusters"]
    /\ m_pc' = IF cl = <<>> THEN "empty_snap" ELSE "m_cache"
    /\ UNCHANGED dashVars
    /\ UNCHANGED fnVars
    /\ UNCHANGED m_after
    /\ UNCHANGED <<stop_event, run_immediately, failure_threshold,
                   collection_count, cluster_cache, waits>>

\* lines 255-260: the handler of the try block counts a failure;
\* _collect_data returns
HandleException ==
    /\ consecutive_failures' = FailuresAfterFailure(consecutive_failures)
    /\ m_pc' = "sleep"
    /\ UNCHANGED dashVars
    /\ UNCHANGED fnVars
    /\ UNCHANGED m_after
    /\ UNCHANGED <<stop_event, run_immediately, failure_threshold,
                   collection_count, cluster_cache, clusters, waits>>

\* line 226: collect() raises CollectorError
CollectorRaises ==
    /\ m_pc = "collecting"
    /\ HandleException
    /\ streak' = streak + 1
    /\ tick' = [tick EXCEPT !.outcome = "raised", !.done = TRUE]

\* lines 236-238: the empty result goes to history; return
EmptySnapshot ==
    /\ m_pc = "empty_snap"
    /\ m_pc' = "sleep"
    /\ tick' = [tick EXCEPT !.done = TRUE]
    /\ UNCHANGED dashVars
    /\ UNCHANGED fnVars
    /\ UNCHANGED m_after
    /\ UNCHANGED <<stop_event, run_immediately, consecutive_failures,
                   failure_threshold, collection_count, cluster_cache,
                   clusters, waits, streak>>

\* line 237: save_snapshot raises inside the try block
EmptySnapshotRaise ==
    /\ m_pc = "empty_snap"
    /\ HandleException
    /\ tick' = [tick EXCEPT !.done = TRUE]
    /\ UNCHANGED streak

\* line 242: self.store.save_cache("cluster_usage", clusters)
ClusterWriteCache ==
    /\ m_pc = "m_cache"
    /\ cluster_cache' = clusters
    /\ m_pc' = "m_snap"
    /\ UNCHANGED dashVars
    /\ UNCHANGED fnVars
    /\ UNCHANGED m_after
    /\ UNCHANGED <<stop_event, run_immediately, consecutive_failures,
                   failure_threshold, collection_count, clusters, tick,
                   waits, streak>>

\* line 242: save_cache raises
ClusterWriteCacheRaise ==
    /\ m_pc = "m_cache"
    /\ HandleException
    /\ tick' = [tick EXCEPT !.done = TRUE]
    /\ UNCHANGED streak

\* Faulty variant: the cleanup runs after every counted cycle
CleanupDue_Always(count) == TRUE

\* line 248: self._collection_count % self._cleanup_every == 0
CleanupDue(count) == count % CleanupEvery = 0

\* lines 243-248: history row, log line, count the cycle, cleanup test
ClusterWriteSnapshot ==
    /\ m_pc = "m_snap"
    /\ collection_count' = collection_count + 1
    /\ m_pc' = IF CleanupDue(collection_count') THEN "cleanup" ELSE "sleep"
    /\ tick' = [tick EXCEPT !.done = ~CleanupDue(collection_count')]
    /\ UNCHANGED dashVars
    /\ UNCHANGED fnVars
    /\ UNCHANGED m_after
    /\ UNCHANGED <<stop_event, run_immediately, consecutive_failures,
                   failure_threshold, cluster_cache, clusters, waits, streak>>

\* line 243: save_snapshot raises
ClusterWriteSnapshotRaise ==
    /\ m_pc = "m_snap"
    /\ HandleException
    /\ tick' = [tick EXCEPT !.done = TRUE]
    /\ UNCHANGED streak

\* lines 249-254: cleanup_old_data(days=30); its exceptions are swallowed
Cleanup ==
    /\ m_pc = "cleanup"
    /\ m_pc' = "sleep"
    /\ tick' = [tick EXCEPT !.cleaned = TRUE, !.done = TRUE]
    /\ UNCHANGED dashVars
    /\ UNCHANGED fnVars
    /\ UNCHANGED m_after
    /\ UNCHANGED <<stop_event, run_immediately, consecutive_failures,
                   failure_threshold, collection_count, cluster_cache,
                   clusters, waits, streak>>

\* lines 200-201: self._stop_event.wait(self.interval) after the cycle
Sleep ==
    /\ WaitReturns("sleep", "stopped", "loop", "interval")
    /\ UNCHANGED dashVars
    /\ UNCHANGED fnVars
    /\ UNCHANGED m_after
    /\ UNCHANGED <<stop_event, run_immediately, consecutive_failures,
                   failure_threshold, collection_count, cluster_cache,
                   clusters, tick, streak>>

MonitorStep ==
    \/ Stop
    \/ RunStart
    \/ FirstWait
    \/ LoopTest
    \/ BreakerTest
    \/ Pause
    \/ CollectCall
    \/ \E cl \in ClusterLists : CollectorReturns(cl)
    \/ CollectorRaises
    \/ EmptySnapshot
    \/ EmptySnapshotRaise
    \/ ClusterWriteCache
    \/ ClusterWriteCacheRaise
    \/ ClusterWriteSnapshot
    \/ ClusterWriteSnapshotRaise
    \/ Cleanup
    \/ Sleep

\* ------------------------------------------------- the workers' intervals
\* Python's max(a, b) on integers
PyMax(a, b) == IF b > a THEN b ELSE a

\* Faulty variant: the configured value is taken as it is
RefreshInterval_Raw(interval_seconds) == interval_seconds

\* workers.py:137: self.interval = max(60, interval_seconds)
RefreshInterval(interval_seconds) == PyMax(60, interval_seconds)

\* workers.py:165: self.interval = max(60, interval_seconds)
MonitorInterval(interval_seconds) == PyMax(60, interval_seconds)

\* The values a configuration can give: zero, negative and positive
ConfiguredIntervals == (0 - MaxSeconds)..MaxSeconds

InitInterval ==
    /\ fn = "none"
    /\ arg \in ConfiguredIntervals
    /\ out = <<>>

\* RefreshWorker.__init__(state, interval_seconds)
NewRefreshWorker ==
    /\ fn = "none"
    /\ arg \in ConfiguredIntervals
    /\ fn' = "RefreshWorker"
    /\ out' = RefreshInterval(arg)
    /\ UNCHANGED <<dashVars, monVars, arg>>

\* ClusterMonitorWorker.__init__(store=..., interval_seconds=...)
NewClusterMonitorWorker ==
    /\ fn = "none"
    /\ arg \in ConfiguredIntervals
    /\ fn' = "ClusterMonitorWorker"
    /\ out' = MonitorInterval(arg)
    /\ UNCHANGED <<dashVars, monVars, arg>>

\* ------------------------------------------------------------- strings
\* A Python str is the sequence of its characters
UpperCase ==
    <<"A", "B", "C", "D", "E", "F", "G", "H", "I", "J", "K", "L", "M",
      "N", "O", "P", "Q", "R", "S", "T", "U", "V", "W", "X", "Y", "Z">>

LowerCase ==
    <<"a", "b", "c", "d", "e", "f", "g", "h", "i", "j", "k", "l", "m",
      "n", "o", "p", "q", "r", "s", "t", "u", "v", "w", "x", "y", "z">>

\* The characters str.strip() removes, as far as the inputs have them
Whitespace == {" ", "\t"}

LowerChar(c) ==
    IF \E i \in 1..Len(UpperCase) : UpperCase[i] = c
    THEN LowerCase[CHOOSE i \in 1..Len(UpperCase) : UpperCase[i] = c]
    ELSE c

UpperChar(c) ==
    IF \E i \in 1..Len(LowerCase) : LowerCase[i] = c
    THEN UpperCase[CHOOSE i \in 1..Len(LowerCase) : LowerCase[i] = c]
    ELSE c

\* str.lower() and str.upper()
Lower(s) == [i \in 1..Len(s) |-> LowerChar(s[i])]

Upper(s) == [i \in 1..Len(s) |-> UpperChar(s[i])]

\* str.strip(): without the leading and the trailing whitespace
Strip(s) ==
    LET inner == {i \in 1..Len(s) : s[i] \notin Whitespace}
    IN  IF inner = {} THEN <<>>
        ELSE SubSeq(s, CHOOSE i \in inner : \A j \in inner : i <= j,
                       CHOOSE i \in inner : \A j \in inner : i >= j)

\* `w in s` on strings: w is a substring of s
Contains(s, w) ==
    \E i \in 1..(Len(s) - Len(w) + 1) : SubSeq(s, i, i + Len(w) - 1) = w

\* k copies of the character c
Repeat(c, k) == [i \in 1..k |-> c]

\* ------------------------------------------------- state normalization
\* SchedulerType
SchedulerTypes == {"PBS", "SLURM", "LSF", "SGE", "UNKNOWN"}

\* normalization.py:35-46: PBS node states
PBS_NODE_STATE_MAP ==
    (<<"f", "r", "e", "e">> :> "IDLE") @@
    (<<"j", "o", "b", "-", "e", "x", "c", "l", "u", "s", "i", "v", "e">> :> "ALLOCATED") @@
    (<<"j", "o", "b", "-", "b", "u", "s", "y">> :> "ALLOCATED") @@
    (<<"b", "u", "s", "y">> :> "ALLOCATED") @@
    (<<"s", "t", "a", "t", "e", "-", "u", "n", "k", "n", "o", "w", "n">> :> "UNKNOWN") @@
    (<<"o", "f", "f", "l", "i", "n", "e">> :> "DOWN") @@
    (<<"d", "o", "w", "n">> :> "DOWN") @@
    (<<"r", "e", "s", "v", "-", "e", "x", "c", "l", "u", "s", "i", "v", "e">> :> "RESERVED") @@
    (<<"m", "a", "i", "n", "t", "e", "n", "a", "n", "c", "e">> :> "MAINTENANCE") @@
    (<<"s", "t", "a", "l", "e">> :> "DOWN")

\* normalization.py:49-75: Slurm node states
SLURM_NODE_STATE_MAP ==
    (<<"i", "d", "l", "e">> :> "IDLE") @@
    (<<"a", "l", "l", "o", "c">> :> "ALLOCATED") @@
    (<<"a", "l", "l", "o", "c", "a", "t", "e", "d">> :> "ALLOCATED") @@
    (<<"m", "i", "x">> :> "MIXED") @@
    (<<"m", "i", "x", "e", "d">> :> "MIXED") @@
    (<<"d", "o", "w", "n">> :> "DOWN") @@
    (<<"d", "o", "w", "n", "*">> :> "DOWN") @@
    (<<"d", "r", "a", "i", "n">> :> "DRAINING") @@
    (<<"d", "r", "a", "i", "n", "i", "n", "g">> :> "DRAINING") @@
    (<<"d", "r", "a", "i", "n", "e", "d">> :> "DRAINING") @@
    (<<"d", "r", "n", "g">> :> "DRAINING") @@
    (<<"m", "a", "i", "n", "t">> :> "MAINTENANCE") @@
    (<<"r", "e", "s", "v">> :> "RESERVED") @@
    (<<"r", "e", "s", "e", "r", "v", "e", "d">> :> "RESERVED") @@
    (<<"r", "e", "b", "o", "o", "t">> :> "MAINTENANCE") @@
    (<<"f", "a", "i", "l">> :> "DOWN") @@
    (<<"f", "a", "i", "l", "i", "n", "g">> :> "DOWN") @@
    (<<"f", "u", "t", "u", "r", "e">> :> "OFFLINE") @@
    (<<"u", "n", "k", "n", "o", "w", "n">> :> "UNKNOWN") @@
    (<<"u", "n", "k">> :> "UNKNOWN") @@
    (<<"n", "o", "_", "r", "e", "s", "p", "o", "n", "d">> :> "DOWN") @@
    (<<"n", "o", "t", "_", "r", "e", "s", "p", "o", "n", "d", "i", "n", "g">> :> "DOWN") @@
    (<<"p", "o", "w", "e", "r", "e", "d", "_", "o", "f", "f">> :> "OFFLINE") @@
    (<<"p", "o", "w", "e", "r", "i", "n", "g", "_", "d", "o", "w", "n">> :> "DRAINING") @@
    (<<"p", "o", "w", "e", "r", "i", "n", "g", "_", "u", "p">> :> "OFFLINE")

\* normalization.py:78-85: PBS queue states
PBS_QUEUE_STATE_MAP ==
    (<<"s", "t", "a", "r", "t", "e", "d">> :> "ACTIVE") @@
    (<<"e", "n", "a", "b", "l", "e", "d">> :> "ACTIVE") @@
    (<<"t", "r", "u", "e">> :> "ACTIVE") @@
    (<<"s", "t", "o", "p", "p", "e", "d">> :> "INACTIVE") @@
    (<<"d", "i", "s", "a", "b", "l", "e", "d">> :> "INACTIVE") @@
    (<<"f", "a", "l", "s", "e">> :> "INACTIVE")

\* normalization.py:88-96: Slurm partition states
SLURM_PARTITION_STATE_MAP ==
    (<<"u", "p">> :> "ACTIVE") @@
    (<<"u", "p", "*">> :> "ACTIVE") @@
    (<<"d", "o", "w", "n">> :> "OFFLINE") @@
    (<<"d", "o", "w", "n", "*">> :> "OFFLINE") @@
    (<<"d", "r", "a", "i", "n">> :> "DRAINING") @@
    (<<"i", "n", "a", "c", "t", "i", "v", "e">> :> "INACTIVE") @@
    (<<"i", "n", "a", "c", "t">> :> "INACTIVE")

\* normalization.py:99-112: PBS job states
PBS_JOB_STATE_MAP ==
    (<<"Q">> :> "PENDING") @@
    (<<"R">> :> "RUNNING") @@
    (<<"E">> :> "RUNNING") @@
    (<<"H">> :> "HELD") @@
    (<<"T">> :> "PENDING") @@
    (<<"W">> :> "PENDING") @@
    (<<"S">> :> "SUSPENDED") @@
    (<<"F">> :> "COMPLETED") @@
    (<<"X">> :> "COMPLETED") @@
    (<<"C">> :> "COMPLETED") @@
    (<<"B">> :> "RUNNING") @@
    (<<"M">> :> "PENDING")

\* normalization.py:115-144: Slurm job states
SLURM_JOB_STATE_MAP ==
    (<<"P", "D">> :> "PENDING") @@
    (<<"P", "E", "N", "D", "I", "N", "G">> :> "PENDING") @@
    (<<"R">> :> "RUNNING") @@
    (<<"R", "U", "N", "N", "I", "N", "G">> :> "RUNNING") @@
    (<<"C", "G">> :> "RUNNING") @@
    (<<"C", "O", "M", "P", "L", "E", "T", "I", "N", "G">> :> "RUNNING") @@
    (<<"C", "D">> :> "COMPLETED") @@
    (<<"C", "O", "M", "P", "L", "E", "T", "E", "D">> :> "COMPLETED") @@
    (<<"F">> :> "FAILED") @@
    (<<"F", "A", "I", "L", "E", "D">> :> "FAILED") @@
    (<<"C", "A">> :> "CANCELLED") @@
    (<<"C", "A", "N", "C", "E", "L", "L", "E", "D">> :> "CANCELLED") @@
    (<<"T", "O">> :> "FAILED") @@
    (<<"T", "I", "M", "E", "O", "U", "T">> :> "FAILED") @@
    (<<"N", "F">> :> "FAILED") @@
    (<<"N", "O", "D", "E", "_", "F", "A", "I", "L">> :> "FAILED") @@
    (<<"S">> :> "SUSPENDED") @@
    (<<"S", "U", "S", "P", "E", "N", "D", "E", "D">> :> "SUSPENDED") @@
    (<<"S", "T">> :> "SUSPENDED") @@
    (<<"P", "R">> :> "FAILED") @@
    (<<"P", "R", "E", "E", "M", "P", "T", "E", "D">> :> "FAILED") @@
    (<<"B", "F">> :> "FAILED") @@
    (<<"D", "L">> :> "FAILED") @@
    (<<"O", "O", "M">> :> "FAILED") @@
    (<<"R", "Q">> :> "PENDING") @@
    (<<"R", "E", "Q", "U", "E", "U", "E", "D">> :> "PENDING") @@
    (<<"R", "S">> :> "PENDING") @@
    (<<"R", "V">> :> "PENDING")

\* The character class of the re.sub calls
StateModifiers == {"*", "+", "~", "#", "!", "%", "$"}

\* re.sub(r"[*+~#!%$]", "", s)
RemoveModifiers(s) == SelectSeq(s, LAMBDA c : c \notin StateModifiers)

\* What a subscript of a dict gives: the value, or KeyError for a key the
\* dict does not have
KeyError == "KeyError"

Subscript(map, key) == IF key \in DOMAIN map THEN map[key] ELSE KeyError

\* Faulty variant: the membership test is left out
InTable_Always(map, key) == TRUE

\* `key in MAP`
InTable(map, key) == key \in DOMAIN map

\* The cascade shared by the three functions: the hinted scheduler's table,
\* then the PBS table, then the Slurm table, then the generic rules
Cascade(key, scheduler, pbs, slurm, generic) ==
    IF scheduler = "PBS" /\ InTable(pbs, key) THEN Subscript(pbs, key)
    ELSE IF scheduler = "SLURM" /\ InTable(slurm, key) THEN Subscript(slurm, key)
    ELSE IF InTable(pbs, key) THEN Subscript(pbs, key)
    ELSE IF InTable(slurm, key) THEN Subscript(slurm, key)
    ELSE generic

\* normalization.py:223-235: the generic rules for node states
NodeGeneric(key) ==
    IF \/ Contains(key, <<"d", "o", "w", "n">>)
       \/ Contains(key, <<"f", "a", "i", "l">>)
       \/ Contains(key, <<"e", "r", "r", "o", "r">>) THEN "DOWN"
    ELSE IF Contains(key, <<"d", "r", "a", "i", "n">>) THEN "DRAINING"
    ELSE IF Contains(key, <<"m", "a", "i", "n", "t">>) THEN "MAINTENANCE"
    ELSE IF Contains(key, <<"i", "d", "l", "e">>) \/ Contains(key, <<"f", "r", "e", "e">>) THEN "IDLE"
    ELSE IF Contains(key, <<"a", "l", "l", "o", "c">>) \/ Contains(key, <<"b", "u", "s", "y">>) THEN "ALLOCATED"
    ELSE "UNKNOWN"

\* state.lower().strip() without the modifier characters
StateKey(state) == RemoveModifiers(Strip(Lower(state)))

normalize_node_state(state, scheduler) ==
    Cascade(StateKey(state), scheduler, PBS_NODE_STATE_MAP,
            SLURM_NODE_STATE_MAP, NodeGeneric(StateKey(state)))

\* normalization.py:267-275: the generic rules for queue states
QueueGeneric(key) ==
    IF key \in {<<"u", "p">>,
                <<"a", "c", "t", "i", "v", "e">>,
                <<"e", "n", "a", "b", "l", "e", "d">>,
                <<"s", "t", "a", "r", "t", "e", "d">>,
                <<"r", "u", "n", "n", "i", "n", "g">>,
                <<"t", "r", "u", "e">>} THEN "ACTIVE"
    ELSE IF key \in {<<"d", "o", "w", "n">>, <<"o", "f", "f", "l", "i", "n", "e">>, <<"d", "i", "s", "a", "b", "l", "e", "d">>} THEN "OFFLINE"
    ELSE IF Contains(key, <<"d", "r", "a", "i", "n">>) THEN "DRAINING"
    ELSE "ACTIVE"

normalize_queue_state(state, scheduler) ==
    Cascade(StateKey(state), scheduler, PBS_QUEUE_STATE_MAP,
            SLURM_PARTITION_STATE_MAP, QueueGeneric(StateKey(state)))

\* normalization.py:304-314: the generic rules for job states
JobGeneric(key) ==
    IF key \in {<<"Q">>,
                <<"Q", "U", "E", "U", "E", "D">>,
                <<"P", "E", "N", "D", "I", "N", "G">>,
                <<"P", "D">>,
                <<"W">>,
                <<"W", "A", "I", "T", "I", "N", "G">>} THEN "PENDING"
    ELSE IF key \in {<<"R">>, <<"R", "U", "N", "N", "I", "N", "G">>, <<"E">>, <<"E", "X", "E", "C", "U", "T", "I", "N", "G">>} THEN "RUNNING"
    ELSE IF key \in {<<"C">>,
                <<"C", "O", "M", "P", "L", "E", "T", "E", "D">>,
                <<"C", "D">>,
                <<"F">>,
                <<"F", "I", "N", "I", "S", "H", "E", "D">>} THEN "COMPLETED"
    ELSE IF key \in {<<"H">>, <<"H", "E", "L", "D">>, <<"H", "O", "L", "D">>} THEN "HELD"
    ELSE "PENDING"

\* state.upper().strip()
JobKey(state) == Strip(Upper(state))

normalize_job_state(state, scheduler) ==
    Cascade(JobKey(state), scheduler, PBS_JOB_STATE_MAP,
            SLURM_JOB_STATE_MAP, JobGeneric(JobKey(state)))

\* Raw states that are in no table: words the generic rules know, and others
OtherStateWords ==
    {<<>>,
     <<"x", "y", "z">>,
     <<"u", "n", "k", "n", "o", "w", "n", "_", "s", "t", "a", "t", "e">>,
     <<"f", "a", "i", "l", "e", "d">>,
     <<"n", "o", "d", "e", "_", "e", "r", "r", "o", "r">>,
     <<"d", "r", "a", "i", "n", "i", "n", "g">>,
     <<"i", "n", " ", "m", "a", "i", "n", "t">>,
     <<"f", "r", "e", "e", "d">>,
     <<"b", "u", "s", "y">>,
     <<"a", "c", "t", "i", "v", "e">>,
     <<"r", "u", "n", "n", "i", "n", "g">>,
     <<"d", "i", "s", "a", "b", "l", "e", "d">>,
     <<"o", "f", "f", "l", "i", "n", "e">>,
     <<"q", "u", "e", "u", "e", "d">>,
     <<"w", "a", "i", "t", "i", "n", "g">>,
     <<"e", "x", "e", "c", "u", "t", "i", "n", "g">>,
     <<"f", "i", "n", "i", "s", "h", "e", "d">>,
     <<"h", "e", "l", "d">>,
     <<"h", "o", "l", "d">>,
     <<"n", "o", "t", " ", "r", "e", "s", "p", "o", "n", "d", "i", "n", "g">>}

\* The raw states the three functions are applied to: every key of the six
\* tables and the words above, each as it is, in the other case, padded with
\* blanks, followed by modifier characters, and inside a longer word
TableWords ==
    DOMAIN PBS_NODE_STATE_MAP \cup DOMAIN SLURM_NODE_STATE_MAP \cup
    DOMAIN PBS_QUEUE_STATE_MAP \cup DOMAIN SLURM_PARTITION_STATE_MAP \cup
    DOMAIN PBS_JOB_STATE_MAP \cup DOMAIN SLURM_JOB_STATE_MAP

Variants(w) ==
    {w, Upper(w), Lower(w), <<"x">> \o w \o <<"x">>} \cup
    UNION {{Repeat(" ", k) \o w \o Repeat(" ", k),
            w \o Repeat("*", k),
            w \o Repeat(" ", k) \o <<"~">>} : k \in 1..MaxPad}

RawStates == UNION {Variants(w) : w \in TableWords \cup OtherStateWords}

InitStates ==
    /\ fn = "none"
    /\ arg \in [state : RawStates, scheduler : SchedulerTypes]
    /\ out = <<>>

ApplyNodeState ==
    /\ fn = "none"
    /\ arg \in [state : RawStates, scheduler : SchedulerTypes]
    /\ fn' = "normalize_node_state"
    /\ out' = normalize_node_state(arg.state, arg.scheduler)
    /\ UNCHANGED <<dashVars, monVars, arg>>

ApplyQueueState ==
    /\ fn = "none"
    /\ arg \in [state : RawStates, scheduler : SchedulerTypes]
    /\ fn' = "normalize_queue_state"
    /\ out' = normalize_queue_state(arg.state, arg.scheduler)
    /\ UNCHANGED <<dashVars, monVars, arg>>

ApplyJobState ==
    /\ fn = "none"
    /\ arg \in [state : RawStates, scheduler : SchedulerTypes]
    /\ fn' = "normalize_job_state"
    /\ out' = normalize_job_state(arg.state, arg.scheduler)
    /\ UNCHANGED <<dashVars, monVars, arg>>

\* -------------------------------------------------------------- walltime
\* Python's None, and a value that is not None
NoneValue == [none |-> TRUE]

Some(v) == [some |-> v]

\* What int() raises for a string that is not an integer literal
ValueError == [error |-> "ValueError"]

DigitChars == <<"0", "1", "2", "3", "4", "5", "6", "7", "8", "9">>

Digits == {DigitChars[i] : i \in 1..Len(DigitChars)}

DigitValue(c) == (CHOOSE i \in 1..Len(DigitChars) : DigitChars[i] = c) - 1

\* The number a string of decimal digits denotes
RECURSIVE ToNat(_)
ToNat(ds) ==
    IF ds = <<>> THEN 0
    ELSE ToNat(SubSeq(ds, 1, Len(ds) - 1)) * 10 + DigitValue(ds[Len(ds)])

\* int(s) on a str: blanks around it, one sign, digits, single underscores
\* between digits; anything else raises ValueError
IntParse(s) ==
    LET t == Strip(s)
        signed == t # <<>> /\ t[1] \in {"+", "-"}
        body == IF signed THEN Tail(t) ELSE t
        wellFormed ==
            /\ body # <<>>
            /\ \A i \in 1..Len(body) : body[i] \in Digits \cup {"_"}
            /\ body[1] # "_"
            /\ body[Len(body)] # "_"
            /\ \A i \in 1..(Len(body) - 1) : ~(body[i] = "_" /\ body[i + 1] = "_")
        magnitude == ToNat(SelectSeq(body, LAMBDA c : c \in Digits))
    IN  IF ~wellFormed THEN ValueError
        ELSE IF t[1] = "-" THEN Some(0 - magnitude)
        ELSE Some(magnitude)

\* s.split(sep) for a one-character separator
RECURSIVE Split(_, _)
Split(s, sep) ==
    IF \A i \in 1..Len(s) : s[i] # sep THEN <<s>>
    ELSE LET first == CHOOSE i \in 1..Len(s) :
                          s[i] = sep /\ \A j \in 1..(i - 1) : s[j] # sep
         IN  <<SubSeq(s, 1, first - 1)>> \o Split(SubSeq(s, first + 1, Len(s)), sep)

\* The length of the run of digits of s that begins at position i
RECURSIVE DigitRun(_, _)
DigitRun(s, i) ==
    IF i > Len(s) THEN 0
    ELSE IF s[i] \notin Digits THEN 0
    ELSE 1 + DigitRun(s, i + 1)

\* re.match(r"(\d+)-(\d+):(\d+):(\d+)", s): the four groups when a prefix of
\* s has that form, <<>> when none has; what follows the match is ignored
MatchSlurm(s) ==
    LET n1 == DigitRun(s, 1)
        p1 == n1 + 1
        n2 == DigitRun(s, p1 + 1)
        p2 == p1 + n2 + 1
        n3 == DigitRun(s, p2 + 1)
        p3 == p2 + n3 + 1
        n4 == DigitRun(s, p3 + 1)
    IN  IF /\ n1 > 0 /\ p1 <= Len(s) /\ s[p1] = "-"
           /\ n2 > 0 /\ p2 <= Len(s) /\ s[p2] = ":"
           /\ n3 > 0 /\ p3 <= Len(s) /\ s[p3] = ":"
           /\ n4 > 0
        THEN <<SubSeq(s, 1, n1), SubSeq(s, p1 + 1, p1 + n2),
               SubSeq(s, p2 + 1, p2 + n3), SubSeq(s, p3 + 1, p3 + n4)>>
        ELSE <<>>

\* normalization.py:389-413: _format_duration, the count and the unit of the
\* text it builds, with the hour remainder of a number of days
Plural(unit, n) == IF n # 1 THEN <<unit, "s">> ELSE <<unit>>

FormatDuration(seconds) ==
    LET minutes == seconds \div 60
        hours == minutes \div 60
        days == hours \div 24
        remaining_hours == hours % 24
    IN  IF seconds < 60 THEN [n |-> seconds, unit |-> <<"seconds">>]
        ELSE IF minutes < 60 THEN [n |-> minutes, unit |-> Plural("minute", minutes)]
        ELSE IF hours < 24 THEN [n |-> hours, unit |-> Plural("hour", hours)]
        ELSE IF remaining_hours = 0 THEN [n |-> days, unit |-> Plural("day", days)]
        ELSE [n |-> days, unit |-> Plural("day", days),
              rest |-> [n |-> remaining_hours,
                        unit |-> Plural("hour", remaining_hours)]]

\* The results of parse_walltime: (None, "unlimited"), (seconds, duration
\* text) and (None, text)
Unlimited == [seconds |-> NoneValue, display |-> [kind |-> "unlimited"]]

Parsed(seconds) ==
    [seconds |-> Some(seconds),
     display |-> [kind |-> "duration", text |-> FormatDuration(seconds)]]

Unparsed(text) == [seconds |-> NoneValue, display |-> [kind |-> "text", text |-> text]]

\* normalization.py:340
UnlimitedWords == {<<"I", "N", "F", "I", "N", "I", "T", "E">>,
                   <<"U", "N", "L", "I", "M", "I", "T", "E", "D">>,
                   <<"N", "O", "N", "E">>,
                   <<"N", "/", "A">>}

\* map(int, parts): the values, or ValueError if int() raises for one part
IntParts(parts) ==
    IF \E i \in 1..Len(parts) : IntParse(parts[i]) = ValueError THEN ValueError
    ELSE Some([i \in 1..Len(parts) |-> IntParse(parts[i]).some])

\* days * 86400 + hours * 3600 + mins * 60 + secs
DhmsSeconds(v) == v[1] * 86400 + v[2] * 3600 + v[3] * 60 + v[4]

\* hours * 3600 + mins * 60 + secs
HmsSeconds(v) == v[1] * 3600 + v[2] * 60 + v[3]

\* hours * 3600 + mins * 60
HmSeconds(v) == v[1] * 3600 + v[2] * 60

\* normalization.py:317-386
parse_walltime(walltime) ==
    IF walltime = <<>> \/ walltime = <<"-">> THEN Unlimited
    ELSE
    LET stripped == Strip(walltime)
        parts == Split(stripped, ":")
        groups == MatchSlurm(stripped)
    IN  IF Upper(stripped) \in UnlimitedWords THEN Unlimited
        ELSE IF IntParse(stripped) # ValueError
             THEN Parsed(IntParse(stripped).some * 60)
        ELSE IF groups # <<>>
             THEN Parsed(DhmsSeconds([i \in 1..4 |-> ToNat(groups[i])]))
        ELSE IF Len(parts) = 4 /\ IntParts(parts) # ValueError
             THEN Parsed(DhmsSeconds(IntParts(parts).some))
        ELSE IF Len(parts) = 3 /\ IntParts(parts) # ValueError
             THEN Parsed(HmsSeconds(IntParts(parts).some))
        ELSE IF Len(parts) = 2 /\ IntParts(parts) # ValueError
             THEN Parsed(HmSeconds(IntParts(parts).some))
        ELSE Unparsed(stripped)

\* Faulty variant: the hours are left out of the sum
QueueHmsSeconds_NoHours(v) == v[2] * 60 + v[3]

\* models.py:214: h * 3600 + m * 60 + s
QueueHmsSeconds(v) == v[1] * 3600 + v[2] * 60 + v[3]

\* models.py:217: d * 86400 + h * 3600 + m * 60 + s
QueueDhmsSeconds(v) == v[1] * 86400 + v[2] * 3600 + v[3] * 60 + v[4]

\* models.py:207-220: QueueInfo._parse_walltime; a ValueError is caught
QueueParseWalltime(walltime) ==
    LET parts == Split(walltime, ":")
    IN  IF Len(parts) = 3 /\ IntParts(parts) # ValueError
        THEN Some(QueueHmsSeconds(IntParts(parts).some))
        ELSE IF Len(parts) = 4 /\ IntParts(parts) # ValueError
        THEN Some(QueueDhmsSeconds(IntParts(parts).some))
        ELSE NoneValue

\* models.py:202-205: __post_init__ fills max_walltime_seconds in when it
\* was not given and max_walltime is not empty
QueueInfoSeconds(max_walltime, max_walltime_seconds) ==
    IF max_walltime_seconds = NoneValue /\ max_walltime # <<>>
    THEN QueueParseWalltime(max_walltime)
    ELSE max_walltime_seconds

\* The numbers the walltime strings are made of, as written and as meant
Fields ==
    {[text |-> <<"0">>, value |-> 0],
     [text |-> <<"0", "0">>, value |-> 0],
     [text |-> <<"0", "1">>, value |-> 1],
     [text |-> <<"7">>, value |-> 7],
     [text |-> <<"2", "4">>, value |-> 24],
     [text |-> <<"3", "0">>, value |-> 30],
     [text |-> <<"6", "0">>, value |-> 60]}

Colon(a, b) == a \o <<":">> \o b

\* A walltime string with k blanks before and after it
Padded(text, k) == Repeat(" ", k) \o text \o Repeat(" ", k)

Pads == 0..MaxPad

\* The walltime strings of each form, with the numbers they are made of
HmsInputs ==
    {[walltime |-> Padded(Colon(h.text, Colon(m.text, s.text)), k),
      form |-> "HH:MM:SS", values |-> <<h.value, m.value, s.value>>] :
        h \in Fields, m \in Fields, s \in Fields, k \in Pads}

DhmsInputs ==
    {[walltime |-> Padded(Colon(d.text, Colon(hms.text, s.text)), k),
      form |-> "DD:HH:MM:SS",
      values |-> <<d.value, hms.h, hms.m, s.value>>] :
        d \in Fields,
        hms \in {[text |-> Colon(h.text, m.text), h |-> h.value, m |-> m.value] :
                    h \in Fields, m \in Fields},
        s \in Fields, k \in Pads}

SlurmInputs ==
    {[walltime |-> Padded(d.text \o <<"-">> \o Colon(hms.text, s.text), k),
      form |-> "D-HH:MM:SS",
      values |-> <<d.value, hms.h, hms.m, s.value>>] :
        d \in Fields,
        hms \in {[text |-> Colon(h.text, m.text), h |-> h.value, m |-> m.value] :
                    h \in Fields, m \in Fields},
        s \in Fields, k \in Pads}

HmInputs ==
    {[walltime |-> Padded(Colon(h.text, m.text), k),
      form |-> "HH:MM", values |-> <<h.value, m.value>>] :
        h \in Fields, m \in Fields, k \in Pads}

MinutesInputs ==
    {[walltime |-> Padded(f.text, k), form |-> "MINUTES", values |-> <<f.value>>] :
        f \in Fields, k \in Pads} \cup
    {[walltime |-> <<"-", "5">>, form |-> "MINUTES", values |-> <<0 - 5>>],
     [walltime |-> <<"+", "5">>, form |-> "MINUTES", values |-> <<5>>]}

\* The words for no limit, in either case and padded, the dash and the
\* empty string
SentinelInputs ==
    {[walltime |-> w, form |-> "SENTINEL", values |-> <<>>] :
        w \in UNION {{Padded(u, k), Padded(Lower(u), k)} :
                        u \in UnlimitedWords, k \in Pads} \cup {<<"-">>, <<>>}}

\* Strings of no listed form
OtherInputs ==
    {[walltime |-> w, form |-> "OTHER", values |-> <<>>] :
        w \in {<<"a", "b", "c">>,
              <<" ", "a", "b", "c", " ">>,
              <<" ", " ">>,
              <<" ", "-", " ">>,
              <<"1", "-", "0", "2", ":", "0", "3", ":", "0", "4", "x", "y", "z">>,
              <<"1", "_", "0">>,
              <<"1", ":", " ", "2", ":", "3">>,
              <<"1", ":", "2", ":", "3", ":", "4", ":", "5">>,
              <<"1", "2", ":", "x", "x", ":", "0", "0">>,
              <<"1", "-", "2", ":", "3">>,
              <<"1", ".", "5">>,
              <<"2", "4", "h">>,
              <<"7", "-", "0", "0", ":", "0", "0">>,
              <<":">>,
              <<"1", ":", ":", "2">>,
              <<"x", "1", ":", "0", "2", ":", "0", "3">>,
              <<"1", "-", "2", ":", "3", ":", "4", ":", "5">>}}

WalltimeInputs ==
    HmsInputs \cup DhmsInputs \cup SlurmInputs \cup HmInputs \cup
    MinutesInputs \cup SentinelInputs \cup OtherInputs

InitWalltime ==
    /\ fn = "none"
    /\ arg \in WalltimeInputs
    /\ out = <<>>

ApplyParseWalltime ==
    /\ fn = "none"
    /\ arg \in WalltimeInputs
    /\ fn' = "parse_walltime"
    /\ out' = parse_walltime(arg.walltime)
    /\ UNCHANGED <<dashVars, monVars, arg>>

\* QueueInfo(name, queue_type, max_walltime[, max_walltime_seconds=...])
NewQueueInfo(explicit) ==
    /\ fn = "none"
    /\ arg \in WalltimeInputs
    /\ fn' = "QueueInfo"
    /\ out' = [max_walltime |-> arg.walltime,
               explicit |-> explicit,
               max_walltime_seconds |-> QueueInfoSeconds(arg.walltime, explicit)]
    /\ UNCHANGED <<dashVars, monVars, arg>>

\* ------------------------------------------------------- resource names
\* normalization.py:428-441: the aliases of each resource name
CoreAliases ==
    {<<"n", "c", "p", "u", "s">>, <<"c", "p", "u", "s">>, <<"c", "p", "u">>,
     <<"c", "o", "r", "e", "s">>, <<"c", "o", "r", "e">>,
     <<"p", "r", "o", "c", "s">>,
     <<"p", "r", "o", "c", "e", "s", "s", "o", "r", "s">>,
     <<"n", "p">>, <<"p", "p", "n">>}

NodeAliases ==
    {<<"n", "o", "d", "e", "s">>, <<"n", "o", "d", "e">>,
     <<"n", "o", "d", "e", "c", "t">>, <<"n", "n", "o", "d", "e", "s">>}

GpuAliases ==
    {<<"g", "p", "u", "s">>, <<"g", "p", "u">>, <<"n", "g", "p", "u", "s">>,
     <<"g", "r", "e", "s", "/", "g", "p", "u">>}

MemoryAliases ==
    {<<"m", "e", "m">>, <<"m", "e", "m", "o", "r", "y">>,
     <<"v", "m", "e", "m">>, <<"p", "m", "e", "m">>}

\* Faulty variant: a name that is no alias is returned as it was given
normalize_resource_name_AsGiven(name) ==
    LET name_lower == Strip(Lower(name))
    IN  IF name_lower \in CoreAliases THEN <<"c", "o", "r", "e", "s">>
        ELSE IF name_lower \in NodeAliases THEN <<"n", "o", "d", "e", "s">>
        ELSE IF name_lower \in GpuAliases THEN <<"g", "p", "u", "s">>
        ELSE IF name_lower \in MemoryAliases
             THEN <<"m", "e", "m", "o", "r", "y", "_", "g", "b">>
        ELSE name

\* normalization.py:416-443
normalize_resource_name(name) ==
    LET name_lower == Strip(Lower(name))
    IN  IF name_lower \in CoreAliases THEN <<"c", "o", "r", "e", "s">>
        ELSE IF name_lower \in NodeAliases THEN <<"n", "o", "d", "e", "s">>
        ELSE IF name_lower \in GpuAliases THEN <<"g", "p", "u", "s">>
        ELSE IF name_lower \in MemoryAliases
             THEN <<"m", "e", "m", "o", "r", "y", "_", "g", "b">>
        ELSE name_lower

\* Names that are no alias, in lower case and not
OtherResourceNames ==
    {<<>>, <<"w", "a", "l", "l", "t", "i", "m", "e">>,
     <<"W", "a", "l", "l", "t", "i", "m", "e">>,
     <<"s", "t", "a", "t", "e">>, <<"J", "o", "b", "I", "D">>,
     <<"n", "c", "p", "u">>, <<"g", "p", "u", "_", "t", "y", "p", "e">>,
     <<"m", "e", "m", "_", "g", "b">>, <<"c", "p", "u", " ", "s">>}

\* The names the function is applied to: every alias and the names above,
\* each as it is, in upper case and padded with blanks
ResourceNames ==
    UNION {{w, Upper(w)} \cup {Padded(w, k) : k \in Pads} :
              w \in CoreAliases \cup NodeAliases \cup GpuAliases \cup
                    MemoryAliases \cup OtherResourceNames}

InitNames ==
    /\ fn = "none"
    /\ arg \in ResourceNames
    /\ out = <<>>

ApplyResourceName ==
    /\ fn = "none"
    /\ arg \in ResourceNames
    /\ fn' = "normalize_resource_name"
    /\ out' = normalize_resource_name(arg)
    /\ UNCHANGED <<dashVars, monVars, arg>>

\* ----------------------------------------------------------- allocations
\* models.py:235-242
AllocationStatuses == {"HEALTHY", "LOW", "CRITICAL", "EXHAUSTED", "EXPIRED"}

\* Faulty variant: five percent remaining still count as critical
StatusFor_FiveCritical(percent_remaining) ==
    IF percent_remaining <= 0 THEN "EXHAUSTED"
    ELSE IF percent_remaining <= 5 THEN "CRITICAL"
    ELSE IF percent_remaining < 20 THEN "LOW"
    ELSE "HEALTHY"

\* models.py:273-281
StatusFor(percent_remaining) ==
    IF percent_remaining <= 0 THEN "EXHAUSTED"
    ELSE IF percent_remaining < 5 THEN "CRITICAL"
    ELSE IF percent_remaining < 20 THEN "LOW"
    ELSE "HEALTHY"

\* models.py:270-271: the quotient (hours_used / hours_allocated) * 100, as
\* the fraction it is
PercentUsed(percent_used, hours_used, hours_allocated) ==
    IF percent_used = NoneValue /\ hours_allocated > 0
    THEN Some([num |-> hours_used * 100, den |-> hours_allocated])
    ELSE percent_used

\* The arguments of the constructor: whole percentages on both sides of
\* every threshold, a status given or left to its default
AllocationArgs ==
    [percent_remaining : (0 - MaxPercent)..MaxPercent,
     status : AllocationStatuses,
     hours_allocated : {0, 100},
     hours_used : {0, 85},
     percent_used : {NoneValue}]

InitAllocation ==
    /\ fn = "none"
    /\ arg \in AllocationArgs
    /\ out = <<>>

\* AllocationInfo(...): the dataclass fields, then __post_init__
NewAllocationInfo ==
    /\ fn = "none"
    /\ arg \in AllocationArgs
    /\ fn' = "AllocationInfo"
    /\ out' = [percent_remaining |-> arg.percent_remaining,
               percent_used |-> PercentUsed(arg.percent_used, arg.hours_used,
                                            arg.hours_allocated),
               status |-> StatusFor(arg.percent_remaining)]
    /\ UNCHANGED <<dashVars, monVars, arg>>

\* ------------------------------------------------- collection result
\* hpcmp.py:223-225: (r.get(key) or "UNKNOWN").upper(); None and "" are falsy
OrDefault(v, default) == IF v = NoneValue \/ v = Some(<<>>) THEN default ELSE v.some

CountKey(v) == Upper(OrDefault(v, <<"U", "N", "K", "N", "O", "W", "N">>))

\* collections.Counter over the keys of the rows, as a dict
Counter(keys) ==
    [k \in {keys[i] : i \in 1..Len(keys)} |->
        Cardinality({i \in 1..Len(keys) : keys[i] = k})]

\* Faulty variant: the status is compared as it is written
IsUp_AsWritten(r) == OrDefault(r.status, <<>>) = <<"U", "P">>

\* hpcmp.py:229: (r.get("status") or "").upper() == "UP"
IsUp(r) == Upper(OrDefault(r.status, <<>>)) = <<"U", "P">>

\* round(num / den, 3) in thousandths: the nearest thousandth.  num / den
\* lies half way between two thousandths only when den is a multiple of 16;
\* round() then goes by the binary value of the float, the even thousandth
\* when the quotient is exact
RoundThousandths(num, den) ==
    LET floor == (1000 * num) \div den
        twice == 2 * ((1000 * num) % den)
    IN  IF twice < den THEN floor
        ELSE IF twice > den THEN floor + 1
        ELSE IF floor % 2 = 0 THEN floor
        ELSE floor + 1

\* hpcmp.py:227-229 and 244, in thousandths; 0.0 for no rows
UptimeRatio(rows) ==
    IF rows = <<>> THEN 0
    ELSE RoundThousandths(Cardinality({i \in 1..Len(rows) : IsUp(rows[i])}),
                          Len(rows))

\* hpcmp.py:219-247: HPCMPCollector._build_payload
BuildPayload(rows) ==
    [meta |-> [generated_at |-> IF rows # <<>> THEN rows[1].observed_at
                                ELSE NoneValue,
               collector |-> "hpcmp"],
     summary |->
        [total_systems |-> Len(rows),
         status_counts |-> Counter([i \in 1..Len(rows) |-> CountKey(rows[i].status)]),
         dsrc_counts |-> Counter([i \in 1..Len(rows) |-> CountKey(rows[i].dsrc)]),
         scheduler_counts |->
             Counter([i \in 1..Len(rows) |-> CountKey(rows[i].scheduler)]),
         uptime_ratio |-> UptimeRatio(rows)],
     systems |-> rows]

\* hpcmp.py:205-215: the fields of a raw row the payload is built from; a
\* row observed at either of two times, with values in either case, empty
\* and None
RowValues ==
    {[status |-> st, dsrc |-> site.dsrc, scheduler |-> site.scheduler,
      observed_at |-> Some(site.at)] :
        st \in {Some(<<"U", "P">>), Some(<<"u", "p">>),
                Some(<<"D", "O", "W", "N">>), NoneValue},
        site \in {[dsrc |-> Some(<<"n", "a", "v", "y">>),
                   scheduler |-> Some(<<"s", "l", "u", "r", "m">>), at |-> 1],
                  [dsrc |-> Some(<<>>), scheduler |-> NoneValue, at |-> 2],
                  [dsrc |-> NoneValue,
                   scheduler |-> Some(<<"P", "B", "S">>), at |-> 1]}}

RowLists == UNION {[1..n -> RowValues] : n \in 0..MaxRows}

\* The rows and the time of the call, which is after every observation
InitRows ==
    /\ fn = "none"
    /\ arg \in [rows : RowLists, now : {3}]
    /\ out = <<>>

ApplyBuildPayload ==
    /\ fn = "none"
    /\ arg \in [rows : RowLists, now : {3}]
    /\ fn' = "_build_payload"
    /\ out' = BuildPayload(arg.rows)
    /\ UNCHANGED <<dashVars, monVars, arg>>

\* --------------------------------------------------------- recommendations
\* recommendations.py:202-214: RecommendationEngine._parse_walltime, the
\* hours hours + minutes / 60 in minutes; the seconds are not read
EngineParseWalltime(walltime) ==
    IF walltime = <<>> \/ walltime = <<"-">> THEN NoneValue
    ELSE LET parts == Split(walltime, ":")
         IN  IF Len(parts) # 3 THEN NoneValue
             ELSE IF IntParse(parts[1]) = ValueError \/ IntParse(parts[2]) = ValueError
                  THEN NoneValue
             ELSE Some(IntParse(parts[1]).some * 60 + IntParse(parts[2]).some)

\* recommendations.py:216-221: _safe_int of a count or of a missing one
SafeInt(value) == IF value = NoneValue THEN 0 ELSE value.some

\* recommendations.py:189-200: the percentage remaining, as a fraction
AllocationRemaining(usage) ==
    IF usage.percent_remaining # NoneValue
    THEN Some([num |-> usage.percent_remaining.some, den |-> 1])
    ELSE IF usage.total_allocated_hours > 0
    THEN Some([num |-> usage.total_remaining_hours * 100,
               den |-> usage.total_allocated_hours])
    ELSE NoneValue

\* recommendations.py:115: `max_walltime and walltime_hours > max_walltime`,
\* both in minutes; None and 0.0 are falsy
WalltimeTooLong(max_walltime, walltime) ==
    /\ max_walltime # NoneValue
    /\ max_walltime.some # 0
    /\ walltime > max_walltime.some

\* The factors of the score, each as a whole number of its unit
\* recommendations.py:119-122, in hundredths
PendingFactor(pending_jobs) ==
    IF pending_jobs > 0 THEN PyMax(20, 100 - pending_jobs * 5) ELSE 100

\* recommendations.py:125-130, in tenths
UtilizationFactor(utilization) ==
    IF utilization = NoneValue THEN 10
    ELSE IF utilization.some > 90 THEN 5
    ELSE IF utilization.some > 70 THEN 8
    ELSE 10

\* recommendations.py:133-137, in tenths
TypeFactor(queue_type, gpus) ==
    IF gpus > 0 /\ Contains(Lower(queue_type), <<"g", "p", "u">>) THEN 12
    ELSE IF gpus = 0 /\ Contains(Lower(queue_type), <<"g", "p", "u">>) THEN 5
    ELSE 10

\* recommendations.py:140-147, in tenths
AllocationFactor(allocation) ==
    IF allocation = NoneValue THEN 10
    ELSE IF allocation.some.num < 10 * allocation.some.den THEN 3
    ELSE IF allocation.some.num < 25 * allocation.some.den THEN 7
    ELSE IF allocation.some.num > 75 * allocation.some.den THEN 11
    ELSE 10

\* The score 1.0 in the unit of the product of the four factors
ScoreOne == 100000

\* recommendations.py:103-149: _score_queue, in units of 1 / ScoreOne
ScoreQueue(queue, requirements, system) ==
    IF WalltimeTooLong(EngineParseWalltime(queue.max_walltime),
                       requirements.walltime)
    THEN 0
    ELSE LET score == PendingFactor(SafeInt(queue.pending)) *
                      UtilizationFactor(queue.utilization_percent) *
                      TypeFactor(queue.type, requirements.gpus) *
                      AllocationFactor(AllocationRemaining(system.usage))
         IN  IF score < ScoreOne THEN score ELSE ScoreOne

\* The queues, the jobs and the systems a score is computed for: limits of
\* zero, half an hour, an hour and a day, limits the engine does not parse,
\* and jobs from no time to a day and a half
QueueWalltimes ==
    {<<>>, <<"-">>,
     <<"0", "0", ":", "0", "0", ":", "0", "0">>,
     <<"0", "0", ":", "0", "0", ":", "5", "9">>,
     <<"0", "0", ":", "3", "0", ":", "0", "0">>,
     <<"0", "1", ":", "0", "0", ":", "0", "0">>,
     <<"2", "4", ":", "0", "0", ":", "0", "0">>,
     <<"7", "-", "0", "0", ":", "0", "0", ":", "0", "0">>,
     <<"0", "1", ":", "3", "0">>,
     <<"a", "b", ":", "0", "0", ":", "0", "0">>}

ScoreArgs ==
    [queue : [max_walltime : QueueWalltimes,
              pending : {NoneValue, Some(0), Some(1), Some(16), Some(40)},
              utilization_percent : {NoneValue, Some(50), Some(80), Some(95)},
              type : {<<>>, <<"G", "P", "U">>, <<"b", "a", "t", "c", "h">>}],
     requirements : [walltime : {0, 30, 60, 2160}, gpus : {0, 1}],
     system : [usage : {[percent_remaining |-> NoneValue,
                         total_allocated_hours |-> 0,
                         total_remaining_hours |-> 0],
                        [percent_remaining |-> NoneValue,
                         total_allocated_hours |-> 100,
                         total_remaining_hours |-> 20],
                        [percent_remaining |-> Some(5),
                         total_allocated_hours |-> 0,
                         total_remaining_hours |-> 0],
                        [percent_remaining |-> Some(80),
                         total_allocated_hours |-> 0,
                         total_remaining_hours |-> 0]}]]

InitScore ==
    /\ fn = "none"
    /\ arg \in ScoreArgs
    /\ out = <<>>

\* recommendations.py:80-82: the score of a queue of a system that is up,
\* and whether recommend_queue keeps the queue as a candidate
ApplyScoreQueue ==
    /\ fn = "none"
    /\ arg \in ScoreArgs
    /\ fn' = "_score_queue"
    /\ LET score == ScoreQueue(arg.queue, arg.requirements, arg.system)
       IN  out' = [score |-> score, candidate |-> ~(score <= 0)]
    /\ UNCHANGED <<dashVars, monVars, arg>>

\* ---------------------------------------------------------- load balance
\* recommendations.py:237: s.get("status", "").upper() in ("UP", "ON")
Available(system) == Upper(system.status) \in {<<"U", "P">>, <<"O", "N">>}

RECURSIVE SumSeq(_)
SumSeq(s) == IF s = <<>> THEN 0 ELSE Head(s) + SumSeq(Tail(s))

\* recommendations.py:296-317: _calculate_capacity
CalculateCapacity(system) ==
    LET allocation == AllocationRemaining(system.usage)
    IN  IF allocation # NoneValue /\ allocation.some.num < 5 * allocation.some.den
        THEN 0
        ELSE IF system.queues = <<>> THEN 0
        ELSE SumSeq([i \in 1..Len(system.queues) |->
                        PyMax(0, 1000 - SafeInt(system.queues[i].running)
                                      - SafeInt(system.queues[i].pending) * 2)])

\* system_capacities[name] = ...: a dict keeps the place of a key it has
DictPut(d, name, capacity) ==
    IF \E i \in 1..Len(d) : d[i].name = name
    THEN [i \in 1..Len(d) |->
             IF d[i].name = name THEN [name |-> name, capacity |-> capacity]
             ELSE d[i]]
    ELSE Append(d, [name |-> name, capacity |-> capacity])

\* recommendations.py:235-256: the capacities of the first n systems that
\* are available and have capacity, in the order of the dict
RECURSIVE SystemCapacities(_, _)
SystemCapacities(systems, n) ==
    IF n = 0 THEN <<>>
    ELSE LET d == SystemCapacities(systems, n - 1)
             capacity == CalculateCapacity(systems[n])
         IN  IF Available(systems[n]) /\ capacity > 0
             THEN DictPut(d, systems[n].cluster, capacity)
             ELSE d

\* recommendations.py:271-272: int(total_jobs * (capacity / total_capacity)).
\* The quotient and the product are rounded floats: when the exact product
\* is a whole number the float may fall just below it
JobShares(total_jobs, capacity, total_capacity) ==
    LET floor == (total_jobs * capacity) \div total_capacity
    IN  IF (total_jobs * capacity) % total_capacity = 0 /\ floor > 0
           /\ capacity # total_capacity
        THEN {floor - 1, floor}
        ELSE {floor}

\* The tuples that take their i-th element from the i-th set
RECURSIVE Tuples(_)
Tuples(sets) ==
    IF sets = <<>> THEN {<<>>}
    ELSE {<<x>> \o rest : x \in Head(sets), rest \in Tuples(Tail(sets))}

\* Faulty variant: the jobs left over are given to no system
Remaining_Dropped(total_jobs, jobs_distributed) == 0

\* recommendations.py:286-288: the jobs left over go to the best system
Remaining(total_jobs, jobs_distributed) ==
    IF jobs_distributed < total_jobs THEN total_jobs - jobs_distributed ELSE 0

\* recommendations.py:287: max() gives the first key of the largest capacity
BestSystem(d) ==
    d[CHOOSE i \in 1..Len(d) :
          /\ \A j \in 1..Len(d) : d[j].capacity <= d[i].capacity
          /\ \A j \in 1..(i - 1) : d[j].capacity < d[i].capacity].name

\* recommendations.py:223-294: the results suggest_load_balance can give;
\* the queue and the reason of an entry are left out, the confidence is in
\* hundredths
SuggestLoadBalance(systems, total_jobs) ==
    LET d == SystemCapacities(systems, Len(systems))
        total_capacity == SumSeq([i \in 1..Len(d) |-> d[i].capacity])
    IN  IF d = <<>>
        THEN {[distribution |-> <<>>, confidence |-> 0]}
        ELSE {[distribution |->
                  [name \in {d[i].name : i \in 1..Len(d)} |->
                      LET i == CHOOSE i \in 1..Len(d) : d[i].name = name
                      IN  jobs[i] + IF name = BestSystem(d)
                                    THEN Remaining(total_jobs, SumSeq(jobs))
                                    ELSE 0],
                confidence |-> 85] :
                  jobs \in Tuples([i \in 1..Len(d) |->
                              JobShares(total_jobs, d[i].capacity, total_capacity)])}

\* The systems jobs are spread over: up, on and down, with an allocation
\* that is used up or not, with no queue, a free one, a busy one and two
SystemBodies ==
    {[usage |-> [percent_remaining |-> Some(3), total_allocated_hours |-> 0,
                 total_remaining_hours |-> 0],
      queues |-> <<[running |-> Some(0), pending |-> Some(0)]>>],
     [usage |-> [percent_remaining |-> Some(50), total_allocated_hours |-> 0,
                 total_remaining_hours |-> 0],
      queues |-> <<>>],
     [usage |-> [percent_remaining |-> Some(50), total_allocated_hours |-> 0,
                 total_remaining_hours |-> 0],
      queues |-> <<[running |-> Some(0), pending |-> NoneValue]>>],
     [usage |-> [percent_remaining |-> NoneValue, total_allocated_hours |-> 100,
                 total_remaining_hours |-> 60],
      queues |-> <<[running |-> Some(400), pending |-> Some(100)]>>],
     [usage |-> [percent_remaining |-> NoneValue, total_allocated_hours |-> 0,
                 total_remaining_hours |-> 0],
      queues |-> <<[running |-> Some(0), pending |-> Some(0)],
                   [running |-> Some(1200), pending |-> Some(0)]>>]}

SystemValues ==
    {[cluster |-> c, status |-> st, usage |-> b.usage, queues |-> b.queues] :
        c \in {"a", "b"},
        st \in {<<"U", "P">>, <<"o", "n">>, <<"D", "O", "W", "N">>},
        b \in SystemBodies}

BalanceArgs ==
    [systems : UNION {[1..n -> SystemValues] : n \in 0..MaxSystems},
     total_jobs : 0..MaxJobs]

InitBalance ==
    /\ fn = "none"
    /\ arg \in BalanceArgs
    /\ out = <<>>

ApplySuggestLoadBalance ==
    /\ fn = "none"
    /\ arg \in BalanceArgs
    /\ fn' = "suggest_load_balance"
    /\ out' \in SuggestLoadBalance(arg.systems, arg.total_jobs)
    /\ UNCHANGED <<dashVars, monVars, arg>>

\* ------------------------------------------------------- specifications
\* The monitor worker, not started
ParkedMonitor ==
    /\ m_pc = "parked"
    /\ stop_event = TRUE
    /\ run_immediately = TRUE
    /\ consecutive_failures = 0
    /\ failure_threshold = 1
    /\ collection_count = 0
    /\ cluster_cache = NoClusters
    /\ clusters = NoClusters
    /\ tick = NoTick
    /\ waits = <<>>
    /\ streak = 0
    /\ m_after = 0

\* A DashboardState over an empty store, with no caller
ParkedDash ==
    /\ cache = NoCache
    /\ heap = <<>>
    /\ payload = NoObj
    /\ is_loading = TRUE
    /\ last_error = NoError
    /\ last_refresh_ts = NoTs
    /\ payload_lock = Free
    /\ refresh_lock = Free
    /\ history = <<>>
    /\ clock = 1
    /\ ncollect = 0
    /\ pc = [t \in Threads |-> "parked"]
    /\ blocking = [t \in RefreshThreads |-> TRUE]
    /\ collected = [t \in RefreshThreads |-> NoObj]
    /\ exc = [t \in RefreshThreads |-> NoError]
    /\ rejected = [t \in RefreshThreads |-> FALSE]
    /\ result = [t \in RefreshThreads |-> NoResult]
    /\ pre = [t \in RefreshThreads |-> NoContent]
    /\ held = [t \in ReaderThreads |-> NoObj]
    /\ heldCopy = [t \in ReaderThreads |-> NoContent]
    /\ rw_stop = TRUE
    /\ rw_after = 0
    /\ resp = NoResponse

\* No pure function under check
ParkedFn ==
    /\ fn = "parked"
    /\ arg = <<>>
    /\ out = <<>>

Init == InitDash /\ ParkedMonitor /\ ParkedFn

Next ==
    \/ \E t \in RefreshThreads : RefreshStep(t)
    \/ \E r \in ReaderThreads : SnapshotStep(r)
    \/ WorkerWaitReturns

Spec == Init /\ [][Next]_vars

InitM == InitMonitor /\ ParkedDash /\ ParkedFn

NextM == MonitorStep

SpecMonitor == InitM /\ [][NextM]_vars

\* The DashboardState with its refreshers and an API consumer
NextApi ==
    \/ \E t \in RefreshThreads : RefreshStep(t)
    \/ \E r \in ReaderThreads : ApiStep(r)
    \/ WorkerWaitReturns

SpecApi == Init /\ [][NextApi]_vars

\* The two constructors, each applied to every configured interval
InitIntervals == InitInterval /\ ParkedDash /\ ParkedMonitor

NextIntervals == NewRefreshWorker \/ NewClusterMonitorWorker

SpecIntervals == InitIntervals /\ [][NextIntervals]_vars

\* The three state functions, each applied to every raw state and hint
InitNormalize == InitStates /\ ParkedDash /\ ParkedMonitor

NextNormalize == ApplyNodeState \/ ApplyQueueState \/ ApplyJobState

SpecNormalize == InitNormalize /\ [][NextNormalize]_vars

\* The two walltime parsers, each applied to every walltime string
InitWalltimes == InitWalltime /\ ParkedDash /\ ParkedMonitor

NextWalltimes ==
    \/ ApplyParseWalltime
    \/ \E explicit \in {NoneValue, Some(0)} : NewQueueInfo(explicit)

SpecWalltimes == InitWalltimes /\ [][NextWalltimes]_vars

\* normalize_resource_name applied to every resource name
InitResourceNames == InitNames /\ ParkedDash /\ ParkedMonitor

SpecResourceNames == InitResourceNames /\ [][ApplyResourceName]_vars

\* AllocationInfo built from every argument list
InitAllocations == InitAllocation /\ ParkedDash /\ ParkedMonitor

SpecAllocations == InitAllocations /\ [][NewAllocationInfo]_vars

\* _build_payload applied to every list of raw rows
InitPayloads == InitRows /\ ParkedDash /\ ParkedMonitor

SpecPayloads == InitPayloads /\ [][ApplyBuildPayload]_vars

\* _score_queue applied to every queue, job and system
InitScores == InitScore /\ ParkedDash /\ ParkedMonitor

SpecScores == InitScores /\ [][ApplyScoreQueue]_vars

\* suggest_load_balance applied to every list of systems and job count
InitBalances == InitBalance /\ ParkedDash /\ ParkedMonitor

SpecBalances == InitBalances /\ [][ApplySuggestLoadBalance]_vars

\* Either worker, each beside the other one parked
InitWorkers == Init \/ InitM

NextWorkers ==
    \/ \E t \in RefreshThreads : RefreshStep(t)
    \/ WorkerWaitReturns
    \/ StopRefreshWorker
    \/ NextM

SpecWorkers == InitWorkers /\ [][NextWorkers]_vars

\* ----------------------------------------- properties of DashboardState
LiveNonEmpty == payload # NoObj /\ heap[payload].systems # <<>>

\* A refresh() call that holds the refresh lock and is about to return
Returning(t) == pc[t] = "fin"

\* The regression guard's case: the live payload had systems when the call
\* took the refresh lock, and the collection yielded a payload with none
GuardCase(t) ==
    /\ pre[t].payload # NoObj
    /\ pre[t].content.systems # <<>>
    /\ collected[t] # NoObj
    /\ heap[collected[t]].systems = <<>>

\* The live payload is the object it was at the start of the call, with
\* the systems and summary it had then
LiveContentKept(t) ==
    /\ payload = pre[t].payload
    /\ heap[payload].systems = pre[t].content.systems
    /\ heap[payload].summary = pre[t].content.summary
    /\ heap[payload].gen = pre[t].content.gen

\* C1: once the live payload has a non-empty systems list it has one after
\* every later step of every refresh(), whatever the collections yield, and
\* every snapshot() that returns from then on returns such a payload
C1_NeverRegressToEmpty ==
    [][LiveNonEmpty =>
          /\ LiveNonEmpty'
          /\ \A r \in ReaderThreads :
                (pc[r] = "snap" /\ pc'[r] = "idle") =>
                    /\ held'[r] # NoObj
                    /\ heap'[held'[r]].systems # <<>>]_vars

\* C1 witness: a reader holds a snapshot taken after the guard rejected an
\* empty collection, and it has systems
C1_Witness ==
    \E t \in RefreshThreads, r \in ReaderThreads :
        /\ Returning(t) /\ GuardCase(t)
        /\ held[r] = payload /\ LiveNonEmpty
        /\ heldCopy[r].stale

\* C2 as stated: in the guard's case the live payload keeps its content, is
\* marked stale, the cache entry is not written, the empty result is
\* appended to history and refresh() returns (False, message)
C2_GuardAsStated ==
    \A t \in RefreshThreads :
        (Returning(t) /\ GuardCase(t)) =>
            /\ LiveContentKept(t)
            /\ heap[payload].stale
            /\ cache = pre[t].cache
            /\ history = Append(pre[t].history, heap[collected[t]])
            /\ ~result[t].ok /\ result[t].msg # <<>>

\* C2 amended: as C2, except that the empty result is appended to history
\* only when save_snapshot does not raise; when it raises, history is as
\* before and refresh() still returns (False, message)
C2_GuardKeepsLive ==
    \A t \in RefreshThreads :
        (Returning(t) /\ GuardCase(t)) =>
            /\ LiveContentKept(t)
            /\ heap[payload].stale
            /\ cache = pre[t].cache
            /\ exc[t] = NoError =>
                  /\ history = Append(pre[t].history, heap[collected[t]])
                  /\ result[t] = [ok |-> FALSE, msg |-> <<MsgStale>>]
            /\ exc[t] # NoError => history = pre[t].history
            /\ ~result[t].ok /\ result[t].msg # <<>>

\* C2 witness: a guarded refresh is about to return, history written
C2_Witness ==
    \E t \in RefreshThreads :
        /\ Returning(t) /\ GuardCase(t) /\ exc[t] = NoError
        /\ ~pre[t].content.stale /\ pre[t].cache.present

\* C3: at most one generate_fn() call is in flight, and a non-blocking
\* refresh() issued while the refresh lock is held returns
\* (False, "Refresh already in progress.") at once, collects nothing and
\* leaves the manager's state alone
C3_OneCollectionInFlight ==
    /\ [](Cardinality({t \in RefreshThreads : pc[t] = "collecting"}) <= 1)
    /\ [][\A t \in RefreshThreads :
            ( /\ pc[t] = "idle"
              /\ refresh_lock # Free
              /\ ~blocking'[t]
              /\ <<blocking[t], result[t]>>' # <<blocking[t], result[t]>> ) =>
                /\ result'[t] = [ok |-> FALSE, msg |-> MsgBusy]
                /\ pc'[t] = "idle"
                /\ UNCHANGED <<heap, payload, last_error, last_refresh_ts,
                               is_loading, cache, history, refresh_lock,
                               payload_lock>>]_vars

\* C3 witness: a non-blocking caller was turned away while the other
\* caller holds the refresh lock and its collection is in flight
C3_Witness ==
    \E t, u \in RefreshThreads :
        /\ t # u
        /\ pc[u] = "collecting" /\ refresh_lock = u
        /\ pc[t] = "idle" /\ result[t] = [ok |-> FALSE, msg |-> MsgBusy]

\* C4: when generate_fn() raises, refresh() returns (False, message),
\* last_error is the exception text, and the live payload (object, content
\* and stale flag), the cache entry and last_refresh_ts are as they were
\* when the call took the refresh lock
C4_CollectionFailureKeepsState ==
    \A t \in RefreshThreads :
        (Returning(t) /\ exc[t] = ExcCollect) =>
            /\ result[t] = [ok |-> FALSE, msg |-> <<"Refresh failed: ", ExcCollect>>]
            /\ last_error = ExcCollect
            /\ payload = pre[t].payload
            /\ Content(payload) = pre[t].content
            /\ cache = pre[t].cache
            /\ last_refresh_ts = pre[t].last_refresh_ts

\* C4 witness: a failed collection is about to return over a live payload
C4_Witness ==
    \E t \in RefreshThreads :
        /\ Returning(t) /\ exc[t] = ExcCollect
        /\ pre[t].payload # NoObj /\ pre[t].last_error # ExcCollect

\* The collection yielded a payload that the guard does not reject
AcceptCase(t) == collected[t] # NoObj /\ ~GuardCase(t)

Installed(t) ==
    /\ payload = collected[t]
    /\ cache = SaveCache(heap[collected[t]])
    /\ history = Append(pre[t].history, heap[collected[t]])
    /\ last_error = NoError
    /\ ~heap[payload].stale
    /\ ~is_loading
    /\ result[t].ok

C6_SnapshotImmutable ==
    \A r \in ReaderThreads : held[r] # NoObj => heap[held[r]] = heldCopy[r]

\* C6 case: a reader holds the live payload while a guarded refresh returns
C6_Case ==
    \E t \in RefreshThreads, r \in ReaderThreads :
        Returning(t) /\ GuardCase(t) /\ held[r] = payload

\* Program points inside a `with self._payload_lock:` block
LockedPoints == {"g_body", "i_body", "i_rest", "e_body", "snap", "st_snap"}

\* Program points where a thread waits for the payload lock
PayloadWaitPoints(t) ==
    IF t \in ReaderThreads THEN {"idle"} ELSE {"g_lock", "i_lock", "exc"}

ThreadStep(t) ==
    IF t \in ReaderThreads THEN SnapshotStep(t) \/ ApiStep(t)
    ELSE RefreshStep(t)

\* Thread t has a step to take, or waits for a lock whose holder has one
CanProceed(t) ==
    \/ ENABLED ThreadStep(t)
    \/ /\ pc[t] \in PayloadWaitPoints(t)
       /\ payload_lock # Free
       /\ ENABLED ThreadStep(payload_lock)
    \/ /\ pc[t] = "wait"
       /\ refresh_lock # Free
       /\ \/ ENABLED ThreadStep(refresh_lock)
          \/ /\ payload_lock # Free
             /\ ENABLED ThreadStep(payload_lock)

\* C7: the payload lock is held only inside the four with blocks, whose
\* bodies only read and assign fields: never while generate_fn() or a store
\* write runs and never while waiting for the refresh lock; a snapshot()
\* can take the lock or is one step of the holder away from it, whatever
\* the refreshers are doing; and no thread is stuck
C7_SnapshotNeverWaitsForCollection ==
    /\ \A t \in Threads : payload_lock = t => pc[t] \in LockedPoints
    /\ \A t \in Threads : pc[t] \in LockedPoints => payload_lock = t
    /\ \A r \in ReaderThreads :
          pc[r] = "idle" =>
             \/ ENABLED SnapshotLock(r)
             \/ payload_lock # Free /\ pc[payload_lock] \in LockedPoints
                  /\ ENABLED ThreadStep(payload_lock)
    /\ \A r \in ReaderThreads : pc[r] = "snap" => ENABLED SnapshotBody(r)
    /\ \A t \in RefreshThreads : pc[t] \notin {"idle", "exited"} => CanProceed(t)

\* C7 witness: a reader is inside snapshot() while a collection is in
\* flight and the other refresher waits for the refresh lock
C7_Witness ==
    \E t, u \in RefreshThreads, r \in ReaderThreads :
        pc[t] = "collecting" /\ pc[u] = "wait" /\ pc[r] = "snap"

\* -------------------------------------- properties of ClusterMonitorWorker
\* C8 as stated: on a tick that starts with the counter at or above the
\* threshold the collector is not called
C8_NoCollectionOnOpenTick == tick.open => tick.calls = 0

\* C8 amended: on a tick that starts with the counter at or above the
\* threshold the worker first pauses; if the stop signal ends the pause the
\* tick ends with no collector call and the counter as it was; otherwise
\* the counter is reset and the collector is called in that same tick
C8_OpenTickPausesThenCollects ==
    tick.open =>
        /\ m_pc # "collect" => (tick.pause = "none" <=> m_pc \in {"breaker", "pause"})
        /\ tick.calls > 0 => tick.pause = "elapsed" /\ tick.before = 0
        /\ tick.pause = "stopped" =>
              /\ tick.calls = 0
              /\ consecutive_failures = tick.start
              /\ m_pc \in {"sleep", "stopped"}
        /\ tick.pause = "elapsed" =>
              \/ m_pc = "collect" /\ consecutive_failures = 0
              \/ tick.calls = 1

\* C8 witness: the collector was called on a tick that began with the
\* breaker open
C8_Witness == tick.open /\ tick.calls = 1 /\ m_pc = "collecting"

\* C9: when failure_threshold collections in a row have failed, the next
\* collect() call comes after the interval wait and then the breaker pause,
\* with the counter reset to zero by the end of the pause; a stop during
\* the pause leaves the counter alone and no collect() call follows
C9_PauseBeforeNextAttempt ==
    tick.start_streak >= failure_threshold =>
        /\ tick.calls > 0 =>
              /\ tick.pause = "elapsed"
              /\ tick.waited = <<"interval", "pause">>
              /\ tick.before = 0
        /\ m_pc \in {"collect", "collecting"} => tick.pause = "elapsed"
        /\ tick.pause = "stopped" =>
              /\ tick.calls = 0
              /\ consecutive_failures = tick.start
              /\ m_pc \in {"sleep", "stopped"}

\* C9 witness: collect() is called after failure_threshold failed cycles
C9_Witness ==
    /\ tick.start_streak >= failure_threshold
    /\ failure_threshold > 1
    /\ tick.calls = 1
    /\ m_pc = "collecting"

\* C10: when _collect_data returns after a collect() call: an empty or
\* raising collection has added exactly one to the counter and left the
\* "cluster_usage" entry alone; a collection with clusters has set the
\* counter to zero and written the entry; the entry is never an empty list
C10_CounterAndCache ==
    /\ cluster_cache # <<>>
    /\ (tick.done /\ tick.calls = 1) =>
          /\ tick.outcome \in {"empty", "raised"} =>
                /\ consecutive_failures = tick.before + 1
                /\ cluster_cache = tick.cache_before
          /\ tick.outcome = "clusters" =>
                /\ consecutive_failures = 0
                /\ cluster_cache = clusters

\* The program points of RefreshWorker.run and the refresh() it calls, each
\* numbered by the longest way that is left from it to the thread's exit
\* once the stop event is set
WorkerRank(p) ==
    CASE p = "woken" -> 16
      [] p = "wait" -> 15
      [] p = "collecting" -> 14
      [] p = "guard" -> 13
      [] p = "g_lock" -> 12
      [] p = "g_body" -> 11
      [] p = "g_snap" -> 10
      [] p = "s_cache" -> 9
      [] p = "s_snap" -> 8
      [] p = "i_lock" -> 7
      [] p = "i_body" -> 6
      [] p = "i_rest" -> 5
      [] p = "exc" -> 4
      [] p = "e_body" -> 3
      [] p = "fin" -> 2
      [] p = "idle" -> 1
      [] OTHER -> 0

\* The same for ClusterMonitorWorker.run and _collect_data
MonitorRank(p) ==
    CASE p = "init" -> 12
      [] p = "first_wait" -> 11
      [] p = "loop" -> 10
      [] p = "breaker" -> 9
      [] p = "pause" -> 8
      [] p = "collect" -> 7
      [] p = "collecting" -> 6
      [] p = "empty_snap" -> 5
      [] p = "m_cache" -> 5
      [] p = "m_snap" -> 4
      [] p = "cleanup" -> 3
      [] p = "sleep" -> 2
      [] p = "stopped" -> 1
      [] OTHER -> 0

\* The program points where a run loop waits on its stop event or tests it
WorkerExitPoints == {"idle"}

MonitorExitPoints == {"first_wait", "loop", "sleep"}

\* A stopped worker that has not exited has a step to take, or waits for a
\* lock whose holder has one
StoppedWorkerProceeds ==
    /\ (rw_stop /\ pc["worker"] \notin {"exited", "parked"}) =>
          IF pc["worker"] = "idle" THEN ENABLED WorkerWaitReturns
          ELSE CanProceed("worker")
    /\ (stop_event /\ m_pc \notin {"stopped", "parked"}) => ENABLED MonitorStep

\* What a step may do once the stop event is set: no wait runs out, every
\* step of the worker takes it nearer to its exit, and it exits only where
\* it waits on or tests the event, so a collection in flight runs to its end
StoppedWorkerStep ==
    /\ rw_stop =>
          /\ ~(pc["worker"] = "idle" /\ pc'["worker"] = "woken")
          /\ pc'["worker"] # pc["worker"] =>
                WorkerRank(pc'["worker"]) < WorkerRank(pc["worker"])
    /\ stop_event =>
          /\ Len(waits') <= Len(waits)
          /\ tick'.pause = "elapsed" => tick.pause = "elapsed"
          /\ m_pc' # m_pc => MonitorRank(m_pc') < MonitorRank(m_pc)
    /\ (pc'["worker"] = "exited" /\ pc["worker"] # "exited") =>
          rw_stop /\ pc["worker"] \in WorkerExitPoints
    /\ (m_pc' = "stopped" /\ m_pc # "stopped") =>
          stop_event /\ m_pc \in MonitorExitPoints
    /\ rw_stop' # rw_stop => pc' = pc
    /\ stop_event' # stop_event => m_pc' = m_pc

\* C11: once stop() was called on a RefreshWorker or a ClusterMonitorWorker,
\* the worker begins at most one more refresh() / collect() call, no interval
\* or breaker pause is slept out, a call in flight runs on to its end, the
\* worker is never stuck and each of its steps brings it nearer to its exit
\* (so it exits, given that the calls it makes return)
C11_StopEndsTheLoop ==
    /\ [](rw_after <= 1 /\ m_after <= 1)
    /\ []StoppedWorkerProceeds
    /\ [][StoppedWorkerStep]_vars

\* C11 witness: the refresh worker has exited after the one refresh() call
\* it began after stop(), which had to wait for a handler's collection
C11_Witness ==
    /\ pc["worker"] = "exited"
    /\ rw_after = 1
    /\ ncollect = MaxCollections

\* The monitor's side of the same case: stopped during a cycle, it made the
\* collect() call and exited from the wait that follows
C11_MonitorCase ==
    /\ m_pc = "stopped"
    /\ m_after = 1
    /\ tick.calls = 1

\* No refresh() call has been admitted yet: the manager is as __init__
\* left it
AsConstructed == ncollect = 0

\* The store holds a cache entry for the source that is no older than 24
\* hours: a file that parses, with an mtime at most max_age back
HoldsFreshEntry ==
    cache.present /\ cache.readable /\ cache.age <= MaxAgeHours

\* C12: right after construction, if the store holds a cache entry of at
\* most 24 hours the live payload is that entry's dict flagged from_cache,
\* is_ready() is true and _is_loading is false; otherwise there is no live
\* payload, is_ready() is false and _is_loading is true
C12_InitialState ==
    AsConstructed =>
        IF HoldsFreshEntry
        THEN /\ payload # NoObj
             /\ Content(payload) =
                   [cache.content EXCEPT !.from_cache = TRUE, !.cache_meta = TRUE]
             /\ IsReady
             /\ ~is_loading
        ELSE /\ payload = NoObj
             /\ ~IsReady
             /\ is_loading

\* C12 witness: a manager built on an entry that is exactly 24 hours old
C12_Witness ==
    /\ AsConstructed
    /\ cache.present
    /\ cache.age = MaxAgeHours
    /\ IsReady
    /\ Content(payload).from_cache

\* A dict as one collection cycle or the cache load made it, but for the
\* stale flag a later guard may have set in it
WholePayload(content) ==
    \E i \in 1..Len(heap) :
        \E st \in BOOLEAN :
            /\ content = [heap[i] EXCEPT !.stale = st]
            /\ content.summary.total_systems = Len(content.systems)

\* What a step that answers an API consumer may answer
ApiAnswer ==
    resp' # resp =>
        /\ resp'.kind # "empty"
        /\ payload = NoObj =>
              /\ is_loading
              /\ resp'.kind \in {"loading", "unavailable"}
              /\ resp'.kind = "unavailable" => resp'.code = 503
        /\ payload # NoObj =>
              /\ resp'.kind = "payload"
              /\ resp'.ref = payload
              /\ WholePayload(resp'.content)

\* C13: while there is no live payload the manager is Loading, get_status()
\* returns the placeholder and GET /api/status answers 503; once there is
\* one both return the live payload, a dict that one collection cycle or the
\* cache load made (stale flag aside), also while an install is half done;
\* get_status() never returns the empty dict
C13_PlaceholderOrWholePayload ==
    /\ [](payload = NoObj => is_loading)
    /\ [](is_loading => \/ payload = NoObj
                        \/ \E t \in RefreshThreads : pc[t] = "i_rest")
    /\ [][ApiAnswer]_vars

\* C13 witness: get_status() has returned the payload that an install,
\* still holding the lock, has assigned but not yet marked as loaded
C13_Witness ==
    /\ resp.kind = "payload"
    /\ resp.ref = payload
    /\ is_loading
    /\ \E t \in RefreshThreads : pc[t] = "i_rest"

\* The other answers of C13: the placeholder and the 503
C13_LoadingCase ==
    /\ resp.kind = "unavailable"
    /\ resp.error # "Data not ready yet."
    /\ payload = NoObj

\* A refresh() that collected is about to return failure, and there was a
\* live payload when it took the refresh lock
FailedAttempt(t) ==
    /\ Returning(t)
    /\ ~result[t].ok
    /\ pre[t].payload # NoObj

\* C14 as stated: after any failed attempt, by empty result or by exception,
\* the live payload is flagged stale
C14_StaleAfterAnyFailure ==
    \A t \in RefreshThreads : FailedAttempt(t) => heap[payload].stale

\* Once flagged, the live payload stays flagged while it is the live one,
\* and a payload that replaces it comes unflagged, from a refresh that is
\* in its install
StaleUntilReplaced ==
    /\ (payload # NoObj /\ payload' = payload /\ heap[payload].stale) =>
          heap'[payload'].stale
    /\ payload' # payload =>
          /\ ~heap'[payload'].stale
          /\ \E t \in RefreshThreads : pc[t] = "i_body" /\ pc'[t] = "i_rest"

\* C14 amended: a failed attempt leaves the live payload in place; one that
\* the regression guard rejected has flagged it stale, one that failed by an
\* exception has left the flag as it found it; and the flag stays until a
\* successful refresh replaces the payload
C14_StaleByGuardOnly ==
    /\ [](\A t \in RefreshThreads :
            FailedAttempt(t) =>
               /\ payload = pre[t].payload
               /\ rejected[t] => heap[payload].stale
               /\ ~rejected[t] => exc[t] # NoError
               /\ ~rejected[t] => heap[payload].stale = pre[t].content.stale)
    /\ [][StaleUntilReplaced]_vars

\* C14 witness: the guard flagged the cached payload, and a later attempt
\* that raised is about to return with the flag still set
C14_Witness ==
    \E t \in RefreshThreads :
        /\ FailedAttempt(t)
        /\ ~rejected[t]
        /\ exc[t] = ExcCollect
        /\ heap[payload].stale
        /\ heap[payload].from_cache

\* What a step of the monitor may do to the cycle counter and the cleanup
CleanupStep ==
    /\ collection_count' # collection_count =>
          /\ collection_count' = collection_count + 1
          /\ m_pc = "m_snap"
          /\ tick.outcome = "clusters"
          /\ consecutive_failures' = 0
          /\ m_pc' = "cleanup" <=> collection_count' % CleanupEvery = 0
    /\ (m_pc' = "cleanup" /\ m_pc # "cleanup") =>
          collection_count' # collection_count
    /\ tick'.cleaned => (tick.cleaned \/ m_pc = "cleanup")
    /\ (m_pc = "cleanup" /\ m_pc' # "cleanup") => tick'.cleaned

\* C15: the cycle counter goes up by one exactly when a cycle that collected
\* clusters has written the cache and the history row without an exception;
\* cleanup_old_data runs in that cycle exactly when the counter has reached
\* a multiple of 100, and in no cycle that was empty or raised
C15_CleanupEveryHundredth ==
    /\ [](tick.cleaned =>
            /\ tick.outcome = "clusters"
            /\ consecutive_failures = 0
            /\ collection_count > 0
            /\ collection_count % CleanupEvery = 0)
    /\ []((tick.done /\ tick.outcome \in {"empty", "raised"}) => ~tick.cleaned)
    /\ [](m_pc = "sleep" /\ tick.outcome = "clusters" /\ consecutive_failures > 0
             => ~tick.cleaned)
    /\ [][CleanupStep]_vars

\* C15 witness: the hundredth successful cycle has run the cleanup
C15_Witness ==
    /\ tick.cleaned
    /\ collection_count = CleanupEvery
    /\ m_pc = "sleep"

\* C16: the interval either worker is built with is at least 60 seconds for
\* every configured value, zero and negative ones included, and is the
\* configured value when that is 60 or more
C16_IntervalAtLeastSixty ==
    fn \in {"RefreshWorker", "ClusterMonitorWorker"} =>
        /\ out >= 60
        /\ arg >= 60 => out = arg
        /\ arg < 60 => out = 60

\* C16 witness: a refresh worker built with a negative interval
C16_Witness ==
    /\ fn = "RefreshWorker"
    /\ arg < 0
    /\ out = 60

\* The same for a cluster monitor built with more than a minute
C16_MonitorCase ==
    /\ fn = "ClusterMonitorWorker"
    /\ arg = 61
    /\ out = 61

\* The canonical node states of the docstring of normalize_node_state
CanonicalNodeStates ==
    {"IDLE", "ALLOCATED", "MIXED", "DOWN", "DRAINING", "RESERVED",
     "MAINTENANCE", "UNKNOWN"}

\* C17: whatever the raw state and the scheduler hint, normalize_node_state
\* returns one of the eight canonical node states
C17_NodeStateCanonical ==
    fn = "normalize_node_state" => out \in CanonicalNodeStates

\* The words the generic rules for node states look for
NodeRuleWords ==
    {<<"d", "o", "w", "n">>, <<"f", "a", "i", "l">>, <<"e", "r", "r", "o", "r">>,
     <<"d", "r", "a", "i", "n">>, <<"m", "a", "i", "n", "t">>, <<"i", "d", "l", "e">>,
     <<"f", "r", "e", "e">>, <<"a", "l", "l", "o", "c">>, <<"b", "u", "s", "y">>}

\* The raw state is a key of neither table of its kind and no generic rule
\* applies to it
MatchesNothing ==
    CASE fn = "normalize_node_state" ->
           /\ StateKey(arg.state) \notin
                 DOMAIN PBS_NODE_STATE_MAP \cup DOMAIN SLURM_NODE_STATE_MAP
           /\ \A w \in NodeRuleWords : ~Contains(StateKey(arg.state), w)
      [] fn = "normalize_queue_state" ->
           /\ StateKey(arg.state) \notin
                 DOMAIN PBS_QUEUE_STATE_MAP \cup DOMAIN SLURM_PARTITION_STATE_MAP
           /\ StateKey(arg.state) \notin
                 {<<"u", "p">>, <<"a", "c", "t", "i", "v", "e">>, <<"e", "n", "a", "b", "l", "e", "d">>,
                  <<"s", "t", "a", "r", "t", "e", "d">>, <<"r", "u", "n", "n", "i", "n", "g">>, <<"t", "r", "u", "e">>,
                  <<"d", "o", "w", "n">>, <<"o", "f", "f", "l", "i", "n", "e">>, <<"d", "i", "s", "a", "b", "l", "e", "d">>}
           /\ ~Contains(StateKey(arg.state), <<"d", "r", "a", "i", "n">>)
      [] fn = "normalize_job_state" ->
           /\ JobKey(arg.state) \notin
                 DOMAIN PBS_JOB_STATE_MAP \cup DOMAIN SLURM_JOB_STATE_MAP
           /\ JobKey(arg.state) \notin
                 {<<"Q", "U", "E", "U", "E", "D">>, <<"W", "A", "I", "T", "I", "N", "G">>, <<"E", "X", "E", "C", "U", "T", "I", "N", "G">>,
                  <<"F", "I", "N", "I", "S", "H", "E", "D">>, <<"H", "E", "L", "D">>, <<"H", "O", "L", "D">>}
      [] OTHER -> FALSE

\* C18: each of the three functions returns a string for every raw state
\* and hint, never the KeyError of a missing table key, and a raw state that
\* matches no table entry and no generic rule gives UNKNOWN for a node,
\* ACTIVE for a queue and PENDING for a job
C18_TotalWithFallback ==
    fn \in {"normalize_node_state", "normalize_queue_state",
            "normalize_job_state"} =>
        /\ out # KeyError
        /\ out \in STRING
        /\ MatchesNothing =>
              out = CASE fn = "normalize_node_state" -> "UNKNOWN"
                      [] fn = "normalize_queue_state" -> "ACTIVE"
                      [] fn = "normalize_job_state" -> "PENDING"

\* C18 witness: a padded raw state that nothing matches went through the
\* node cascade with the Slurm hint
C18_Witness ==
    /\ fn = "normalize_node_state"
    /\ arg.scheduler = "SLURM"
    /\ arg.state = <<" ", "u", "n", "k", "n", "o", "w", "n", "_", "s", "t", "a", "t", "e", " ">>
    /\ MatchesNothing
    /\ out = "UNKNOWN"

\* The same for a job state
C18_JobCase ==
    /\ fn = "normalize_job_state"
    /\ arg.state = <<"x", "y", "z">>
    /\ MatchesNothing
    /\ out = "PENDING"

\* The seconds a walltime string of a listed form stands for
ExpectedSeconds(a) ==
    CASE a.form = "HH:MM:SS" ->
             a.values[1] * 3600 + a.values[2] * 60 + a.values[3]
      [] a.form \in {"DD:HH:MM:SS", "D-HH:MM:SS"} ->
             a.values[1] * 86400 + a.values[2] * 3600 + a.values[3] * 60 + a.values[4]
      [] a.form = "HH:MM" -> a.values[1] * 3600 + a.values[2] * 60
      [] a.form = "MINUTES" -> a.values[1] * 60

SecondsForms == {"HH:MM:SS", "DD:HH:MM:SS", "D-HH:MM:SS", "HH:MM", "MINUTES"}

\* parse_walltime gives the seconds of every string of a listed form
ListedFormsGiveSeconds ==
    fn = "parse_walltime" /\ arg.form \in SecondsForms =>
        out.seconds = Some(ExpectedSeconds(arg))

\* parse_walltime gives (None, "unlimited") for the words for no limit
SentinelsGiveUnlimited ==
    fn = "parse_walltime" /\ arg.form = "SENTINEL" => out = Unlimited

\* The examples: "24:00:00", "7:00:00:00", "7-00:00:00", "01:30", "60"
WalltimeExamples ==
    fn = "parse_walltime" =>
        /\ arg.walltime = <<"2", "4", ":", "0", "0", ":", "0", "0">> =>
               out.seconds = Some(86400)
        /\ arg.walltime = <<"7", ":", "0", "0", ":", "0", "0", ":", "0", "0">> =>
               out.seconds = Some(604800)
        /\ arg.walltime = <<"7", "-", "0", "0", ":", "0", "0", ":", "0", "0">> =>
               out.seconds = Some(604800)
        /\ arg.walltime = <<"0", "1", ":", "3", "0">> => out.seconds = Some(5400)
        /\ arg.walltime = <<"6", "0">> => out.seconds = Some(3600)

\* C19: parse_walltime returns the total seconds of an HH:MM:SS,
\* DD:HH:MM:SS, D-HH:MM:SS or HH:MM string and of a bare integer read as
\* minutes, (None, "unlimited") for INFINITE, UNLIMITED, NONE, N/A, "-" and
\* the empty string, and (None, the original text) for every other string.
C19_WalltimeAsStated ==
    /\ ListedFormsGiveSeconds
    /\ WalltimeExamples
    /\ SentinelsGiveUnlimited
    /\ fn = "parse_walltime" /\ arg.form = "OTHER" => out = Unparsed(arg.walltime)

\* A QueueInfo that was given no max_walltime_seconds
QueueInfoBuilt == fn = "QueueInfo" /\ out.explicit = NoneValue

\* C20 as stated: the seconds of a QueueInfo built without
\* max_walltime_seconds are the seconds parse_walltime gives for the same
\* string, for every string.
C20_SecondsAsParseWalltime ==
    QueueInfoBuilt =>
        out.max_walltime_seconds = parse_walltime(arg.walltime).seconds

\* C20: the seconds of a QueueInfo built without max_walltime_seconds are
\* the seconds parse_walltime gives for an HH:MM:SS or DD:HH:MM:SS string;
\* they are None for a D-HH:MM:SS string, an HH:MM string, bare minutes and
\* the words for no limit; and whenever they are not None they are the
\* seconds parse_walltime gives, so they are None for every string
\* parse_walltime does not parse.
C20_ColonFormsOnly ==
    QueueInfoBuilt =>
        LET p == parse_walltime(arg.walltime).seconds
            q == out.max_walltime_seconds
        IN  /\ arg.form \in {"HH:MM:SS", "DD:HH:MM:SS"} =>
                   q = p /\ q = Some(ExpectedSeconds(arg))
            /\ arg.form \in {"D-HH:MM:SS", "HH:MM", "MINUTES", "SENTINEL"} =>
                   q = NoneValue
            /\ q # NoneValue => q = p
            /\ p = NoneValue => q = NoneValue

\* A QueueInfo built with "7-00:00:00": parse_walltime gives 604800 and the
\* QueueInfo has no seconds
C20_Witness ==
    /\ QueueInfoBuilt
    /\ arg.walltime = <<"7", "-", "0", "0", ":", "0", "0", ":", "0", "0">>
    /\ parse_walltime(arg.walltime).seconds = Some(604800)
    /\ out.max_walltime_seconds = NoneValue

\* A QueueInfo built with "24:00:00" has 86400 seconds
C20_ColonCase ==
    /\ QueueInfoBuilt
    /\ arg.walltime = <<"2", "4", ":", "0", "0", ":", "0", "0">>
    /\ out.max_walltime_seconds = Some(86400)

\* The canonical name of the key k is as listed, if k is a listed alias
CanonicalFor(k, name) ==
    /\ k \in CoreAliases => name = <<"c", "o", "r", "e", "s">>
    /\ k \in NodeAliases => name = <<"n", "o", "d", "e", "s">>
    /\ k \in GpuAliases => name = <<"g", "p", "u", "s">>
    /\ k \in MemoryAliases => name = <<"m", "e", "m", "o", "r", "y", "_", "g", "b">>

ListedAliases == CoreAliases \cup NodeAliases \cup GpuAliases \cup MemoryAliases

\* C21 as stated: normalize_resource_name maps every listed alias, compared
\* case-insensitively, to its canonical name and returns every other name
\* exactly as it was given.
C21_OthersUnchanged ==
    fn = "normalize_resource_name" =>
        /\ CanonicalFor(Lower(arg), out)
        /\ Lower(arg) \notin ListedAliases => out = arg

\* C21: normalize_resource_name maps every listed alias, compared in lower
\* case and without surrounding whitespace, to its canonical name and
\* returns every other name in lower case and without surrounding
\* whitespace, so a name that is already so comes back as it was given.
C21_OthersLoweredAndStripped ==
    fn = "normalize_resource_name" =>
        /\ CanonicalFor(Strip(Lower(arg)), out)
        /\ Strip(Lower(arg)) \notin ListedAliases => out = Strip(Lower(arg))

\* "Walltime" is no alias and comes back as "walltime"
C21_Witness ==
    /\ fn = "normalize_resource_name"
    /\ arg = <<"W", "a", "l", "l", "t", "i", "m", "e">>
    /\ out = <<"w", "a", "l", "l", "t", "i", "m", "e">>

TallyKey(v) ==
    IF v = NoneValue THEN <<"U", "N", "K", "N", "O", "W", "N">>
    ELSE IF v.some = <<>> THEN <<"U", "N", "K", "N", "O", "W", "N">>
    ELSE Upper(v.some)

\* counts is the tally of the values: a key for every value that occurs,
\* with the number of its occurrences
IsTally(counts, values) ==
    /\ DOMAIN counts = {TallyKey(values[i]) : i \in 1..Len(values)}
    /\ \A k \in DOMAIN counts :
           counts[k] = Cardinality({i \in 1..Len(values) : TallyKey(values[i]) = k})

RECURSIVE SumOver(_, _)
SumOver(counts, keys) ==
    IF keys = {} THEN 0
    ELSE LET k == CHOOSE k \in keys : TRUE
         IN  counts[k] + SumOver(counts, keys \ {k})

\* The rows whose status is UP in either case
UpRows(rows) ==
    {i \in 1..Len(rows) :
        rows[i].status # NoneValue /\ Upper(rows[i].status.some) = <<"U", "P">>}

\* C23: the payload keeps the rows in order as systems; total_systems is
\* the number of rows; the status, dsrc and scheduler counts are tallies by
\* upper-cased value with a missing value under "UNKNOWN", each summing to
\* total_systems; uptime_ratio is the share of UP rows to the nearest
\* thousandth and 0.0 for no rows; statuses [UP, DOWN, UP] give total 3,
\* counts {UP: 2, DOWN: 1} and ratio 0.667.
C23_PayloadSummary ==
    fn = "_build_payload" =>
        LET rows == arg.rows
            n == Len(rows)
            s == out.summary
            field(f) == [i \in 1..n |-> rows[i][f]]
        IN  /\ out.systems = rows
            /\ s.total_systems = n
            /\ IsTally(s.status_counts, field("status"))
            /\ IsTally(s.dsrc_counts, field("dsrc"))
            /\ IsTally(s.scheduler_counts, field("scheduler"))
            /\ \A m \in {s.status_counts, s.dsrc_counts, s.scheduler_counts} :
                   SumOver(m, DOMAIN m) = n
            /\ n = 0 => s.uptime_ratio = 0
            /\ n > 0 =>
                   LET d == s.uptime_ratio * n - 1000 * Cardinality(UpRows(rows))
                   IN  2 * d <= n /\ 2 * (0 - d) <= n
            /\ field("status") = <<Some(<<"U", "P">>), Some(<<"D", "O", "W", "N">>),
                                   Some(<<"U", "P">>)>> =>
                   /\ s.total_systems = 3
                   /\ s.status_counts = (<<"U", "P">> :> 2) @@ (<<"D", "O", "W", "N">> :> 1)
                   /\ s.uptime_ratio = 667

\* The payload of three rows with statuses UP, DOWN, UP
C23_Witness ==
    /\ fn = "_build_payload"
    /\ Len(arg.rows) = 3
    /\ [i \in 1..3 |-> arg.rows[i].status] =
           <<Some(<<"U", "P">>), Some(<<"D", "O", "W", "N">>), Some(<<"U", "P">>)>>
    /\ out.summary.uptime_ratio = 667

\* The payload of rows with a lower-case up and a missing status
C23_MissingCase ==
    /\ fn = "_build_payload"
    /\ Len(arg.rows) = 2
    /\ arg.rows[1].status = Some(<<"u", "p">>)
    /\ arg.rows[2].status = NoneValue
    /\ out.summary.status_counts =
           (<<"U", "P">> :> 1) @@ (<<"U", "N", "K", "N", "O", "W", "N">> :> 1)
    /\ out.summary.uptime_ratio = 500

\* C24: meta.generated_at is the observation time of the first row when
\* there is a row and the current time when there is none; it is never
\* None.
C24_GeneratedAtAlwaysSet ==
    fn = "_build_payload" =>
        /\ arg.rows # <<>> => out.meta.generated_at = arg.rows[1].observed_at
        /\ arg.rows = <<>> => out.meta.generated_at = Some(arg.now)
        /\ out.meta.generated_at # NoneValue

\* The queue's limit parses to a value below the walltime the job requires
LimitBelowJob ==
    LET limit == EngineParseWalltime(arg.queue.max_walltime)
    IN  limit # NoneValue /\ limit.some < arg.requirements.walltime

\* C25: _score_queue returns 0 and recommend_queue omits the queue whenever
\* the queue's max walltime parses to a value, zero hours included, that
\* is less than the walltime the job requires; in every other case the
\* score is greater than 0 and at most 1.0.
C25_RejectsShortLimits ==
    fn = "_score_queue" =>
        /\ LimitBelowJob => out.score = 0 /\ ~out.candidate
        /\ ~LimitBelowJob => out.score > 0 /\ out.score <= ScoreOne

\* Without a limit of zero hours the claim holds
C25_NonZeroLimits ==
    fn = "_score_queue" /\
    EngineParseWalltime(arg.queue.max_walltime) # Some(0) =>
        /\ LimitBelowJob => out.score = 0 /\ ~out.candidate
        /\ ~LimitBelowJob => out.score > 0 /\ out.score <= ScoreOne

\* A system that is UP or ON has positive capacity
SomeCapacity ==
    \E i \in 1..Len(arg.systems) :
        Available(arg.systems[i]) /\ CalculateCapacity(arg.systems[i]) > 0

\* C26: suggest_load_balance returns a distribution of non-negative job
\* counts that sum to total_jobs when a system that is UP or ON has
\* positive capacity, and an empty distribution with confidence 0 when none
\* has.
C26_DistributionSumsToTotal ==
    fn = "suggest_load_balance" =>
        /\ SomeCapacity =>
               /\ DOMAIN out.distribution # {}
               /\ \A name \in DOMAIN out.distribution : out.distribution[name] >= 0
               /\ SumOver(out.distribution, DOMAIN out.distribution) = arg.total_jobs
        /\ ~SomeCapacity => out.distribution = <<>> /\ out.confidence = 0

\* Seven jobs over two systems of capacity 1000 and 400: five and two, or
\* the float falls short and the job left over goes to the larger system
C26_Witness ==
    /\ fn = "suggest_load_balance"
    /\ arg.total_jobs = 7
    /\ DOMAIN out.distribution = {"a", "b"}
    /\ out.distribution["a"] = 5
    /\ out.distribution["b"] = 2

\* Three jobs over the same two systems: two and none, and the third job
\* goes to the larger system
C26_RemainderCase ==
    /\ fn = "suggest_load_balance"
    /\ arg.total_jobs = 3
    /\ DOMAIN out.distribution = {"a", "b"}
    /\ out.distribution["a"] = 3
    /\ out.distribution["b"] = 0

\* The program points of refresh() after its acquire step and before its
\* return
PastAcquire ==
    {"collecting", "guard", "g_lock", "g_body", "g_snap", "s_cache", "s_snap",
     "i_lock", "i_body", "i_rest", "exc", "e_body", "fin"}

\* The refresh lock is held by the thread, and only by the thread, whose
\* refresh() call is past its acquire step
HeldWhileRefreshing ==
    /\ refresh_lock \in RefreshThreads \cup {Free}
    /\ \A t \in RefreshThreads : (refresh_lock = t) = (pc[t] \in PastAcquire)

\* A refresh() that waits for the lock can take it when it is free, and
\* when it is held the holder has a step to take or waits for the payload
\* lock, whose holder has one
WaiterNotStuck ==
    \A t \in RefreshThreads :
        pc[t] = "wait" =>
            IF refresh_lock = Free THEN ENABLED RefreshUnblock(t)
            ELSE CanProceed(refresh_lock)

\* What a step may do to the lock: it is released only by its holder, at
\* the end of the call; it is taken only when free, by a call that begins
\* or one that waited; a call that returns at once leaves it alone; and
\* every step of the holder takes it nearer to the release
RefreshLockStep ==
    /\ \A t \in RefreshThreads :
          /\ (refresh_lock = t /\ refresh_lock' # t) =>
                pc[t] = "fin" /\ pc'[t] = "idle" /\ refresh_lock' = Free
          /\ (refresh_lock # t /\ refresh_lock' = t) =>
                /\ refresh_lock = Free
                /\ pc[t] \in {"wait", CallPoint(t)}
                /\ pc'[t] = "collecting"
          /\ (refresh_lock = t /\ pc'[t] # pc[t]) =>
                WorkerRank(pc'[t]) < WorkerRank(pc[t])
    /\ pc' = pc => refresh_lock' = refresh_lock

C27_BusyCase ==
    \E t, u \in RefreshThreads :
        /\ pc[t] = "idle"
        /\ result[t] = [ok |-> FALSE, msg |-> MsgBusy]
        /\ refresh_lock = u

\* What a step may do to readiness and to the loading flag: a live payload
\* is never taken away, the flag is never set, and it is cleared only by
\* the last assignments of a refresh() that returns success
ReadinessStep ==
    /\ payload # NoObj => payload' # NoObj
    /\ is_loading' => is_loading
    /\ (is_loading /\ ~is_loading') =>
          \E t \in RefreshThreads :
              pc[t] = "i_rest" /\ pc'[t] = "fin" /\ result'[t].ok

\* C28 as stated: is_ready() stays true once it is true, the loading flag
\* is never set after construction and is cleared only by a successful
\* refresh, and the flag is true exactly while there is no live payload.
C28_LoadingExactlyWhileNoPayload ==
    /\ [](is_loading = ~IsReady)
    /\ [][ReadinessStep]_vars

\* C28: is_ready() stays true once it is true; the loading flag is never
\* set after construction and is cleared only by a successful refresh;
\* there is no live payload only while the flag is true, and the flag is
\* true with a live payload only between the assignment of _payload and
\* the clearing of the flag in the first successful refresh.
C28_ReadyStaysReady ==
    /\ [](~IsReady => is_loading)
    /\ [](is_loading /\ IsReady =>
             \E t \in RefreshThreads : pc[t] = "i_rest" /\ payload = collected[t])
    /\ [][ReadinessStep]_vars

\* The first successful refresh has assigned _payload and not yet cleared
\* the loading flag
C28_Witness ==
    \E t \in RefreshThreads :
        /\ pc[t] = "i_rest"
        /\ is_loading
        /\ IsReady
        /\ pre[t].payload = NoObj


\* ------------------------------------------------------------------ C29

\* The collector is running
CollectorCalled == m_pc = "collecting"

\* C29, second part: the collector is never called while the counter is at
\* or above failure_threshold (the pause resets it, or the tick returns)
C29_NoCallAtThreshold ==
    CollectorCalled => consecutive_failures < failure_threshold

\* C29, third part: one tick raises the counter by at most one over its
\* value when collect() was called (0 after a pause), so that the breaker
\* opens again only after failure_threshold failed ticks
C29_OneFailurePerTick ==
    tick.calls > 0 => consecutive_failures <= tick.before + 1

\* C29: with failure_threshold >= 1 the consecutive-failure counter stays
\* within 0..failure_threshold, the collector is never called while the
\* counter is at or above failure_threshold, and after a pause the breaker
\* opens again only after failure_threshold further consecutive failures
C29_CounterWithinThreshold ==
    failure_threshold >= 1 =>
        /\ 0 <= consecutive_failures
        /\ consecutive_failures <= failure_threshold
        /\ C29_NoCallAtThreshold
        /\ C29_OneFailurePerTick

\* C29, the counter alone
C29_CounterBound == consecutive_failures <= failure_threshold


\* ------------------------------------------------------------------ C30

\* C30, failure: a call that reports failure leaves the cache entry as it
\* found it
C30_FailureLeavesCache ==
    \A t \in RefreshThreads :
        Returning(t) /\ ~result[t].ok => cache = pre[t].cache

\* C30, success: a call that reports success leaves the live payload in the
\* cache entry, and a DashboardState constructed now over the same store
\* starts from that payload, flagged from_cache
C30_SuccessCachesLivePayload ==
    \A t \in RefreshThreads :
        Returning(t) /\ result[t].ok =>
            /\ cache = SaveCache(Content(payload))
            /\ LoadInitialPayload(cache) =
                  [Content(payload) EXCEPT !.cache_meta = TRUE,
                                           !.from_cache = TRUE]

\* C30: the cache entry agrees with what refresh() reported: unchanged by a
\* call that reports failure, holding the live payload after a call that
\* reports success
C30_CacheAgreesWithResult ==
    C30_FailureLeavesCache /\ C30_SuccessCachesLivePayload

====
